---- MODULE Spec2Model ----
(***************************************************************************)
(* Model of the moniker client runtime: the retry engine and the circuit   *)
(* breaker of moniker_client/resilience.py and the resolution pipeline     *)
(* (cache, breaker, retry, resolver request) of moniker_client/client.py.  *)
(*                                                                         *)
(* Its adapters (adapters/oracle.py, adapters/rest.py), the Moniker value  *)
(* type and the configuration loader (config.py) are modelled as well.     *)
(*                                                                         *)
(* The specifications of the module:                                       *)
(*   Spec         one caller of resolve and batch_resolve, caching off,    *)
(*                a resolver that answers nondeterministically;            *)
(*   SpecThreads  two callers interleaving on one client, caching off;     *)
(*   SpecCache    one caller, caching on, a monotonic clock and a wall     *)
(*                clock that the system may adjust;                        *)
(*   SpecRetry    retry_with_backoff applied to an arbitrary work function;*)
(*   SpecWarn     one caller of resolve and batch_resolve, caching on,     *)
(*                every setting of the deprecation options;                *)
(*   SpecRead     one caller of read, batch_read and the thin GETs;        *)
(*   SpecOracle   one OracleAdapter: fetch and close_connections;          *)
(*   SpecQuery    OracleAdapter._build_query on queries and parameters;    *)
(*   SpecRest     RestAdapter.fetch and its retry loop;                    *)
(*   SpecHealth   health_check of the OracleAdapter and the RestAdapter;   *)
(*   SpecMoniker  Moniker construction, child, parent and comparison;      *)
(*   SpecLoad     ClientConfig.load over files and environment;            *)
(*   SpecShared   two threads in _resolve and _get_connection, statement   *)
(*                by statement;                                            *)
(*   SpecFrame    one caller of resolve and batch_resolve, caching on or   *)
(*                off, a resolver that answers nondeterministically;       *)
(*   SpecRecover  two callers that keep resolving after the breaker has    *)
(*                opened, a resolver that is up again, with fairness;      *)
(*   SpecCreds    OracleAdapter.fetch up to the query it executes, on two  *)
(*                bindings that differ in their credentials only;          *)
(*   SpecAuth     two threads in get_auth_headers of the shared            *)
(*                ClientAuth, statement by statement.                      *)
(***************************************************************************)
EXTENDS Integers, Sequences, FiniteSets, TLC

VARIABLES
    mono,               \* time.monotonic(), in seconds
    skew,               \* time.time() - time.monotonic(): moved by clock adjustments
    cache_ttl,          \* ClientConfig.cache_ttl
    _cache,             \* MonikerClient._cache: moniker -> (ResolvedSource, cached_at)
    _circuit_breaker,   \* MonikerClient._circuit_breaker
    th,                 \* per caller thread: position in resolve / batch_resolve
    hist,               \* history: streak, the failed resolve calls since the last
                        \* reported success; served, the monikers resolved so far
    rt,                 \* SpecRetry: the frame of one retry_with_backoff call
    config,             \* ClientConfig: report_telemetry and the deprecation settings
    rd,                 \* per caller thread: position in read, batch_read or a thin GET
    ora,                \* SpecOracle: one OracleAdapter and the driver behind it
    qb,                 \* SpecQuery: one OracleAdapter._build_query call and its inputs
    rest,               \* SpecRest: one RestAdapter.fetch call and the endpoint behind it
    hc,                 \* SpecHealth: the health_check call that ended last
    mk,                 \* SpecMoniker: Moniker objects and what was computed from them
    ld,                 \* SpecLoad: the configuration sources and the ClientConfig loaded
    sh,                 \* SpecShared: the threads' positions, statement by statement
    cr,                 \* SpecCreds: two bindings that differ in their credentials
    au                  \* SpecAuth: the shared ClientAuth and the threads that call it

\* the components that are checked on their own
standalone == <<qb, rest, hc, mk, ld, sh, cr, au>>

vars == <<mono, skew, cache_ttl, _cache, _circuit_breaker, th, hist, rt, config, rd, ora,
          qb, rest, hc, mk, ld, sh, cr, au>>

----------------------------------------------------------------------------
(* Bounds of the model *)

MaxTime == 40           \* the monotonic clock stops advancing here
TickStep == 10          \* seconds the clocks advance in one step
MaxSkew == 10           \* the wall clock is set at most this far off the monotonic one
CacheTtl == 20          \* the non-zero cache_ttl configured
MaxRetries == 3         \* SpecRetry: largest RetryConfig.max_retries tried
MaxConns == 3           \* SpecOracle: connections the driver opens at most
MaxAttempts == 3        \* SpecRest: largest ClientConfig.retry_max_attempts tried
MaxLen == 3             \* SpecMoniker: longest path given, scheme aside, in words and separators

Threads == {"t1", "t2"}
Callers == {"t1"}      \* the threads that make calls in Spec and SpecCache
Monikers == {"a", "b"}

----------------------------------------------------------------------------
(* resilience.py: RetryConfig *)

max_retries == 3
base_delay_ms == 500
max_delay_ms == 30000
exponential_base == 2
retryable_status_codes == {429, 502, 503, 504}

\* "no such attribute": an exception without .response.status_code
NoStatus == 0

(* type(e).__name__ of the exceptions that occur, spelled out so that the  *)
(* substring test of the classifier is computed, not assumed.              *)
Spelling(name) ==
    CASE name = "ResolutionError" -> <<"R","e","s","o","l","u","t","i","o","n","E","r","r","o","r">>
      [] name = "NotFoundError"   -> <<"N","o","t","F","o","u","n","d","E","r","r","o","r">>
      [] name = "ConnectError"    -> <<"C","o","n","n","e","c","t","E","r","r","o","r">>
      [] name = "ConnectionError" -> <<"C","o","n","n","e","c","t","i","o","n","E","r","r","o","r">>
      [] name = "ReadTimeout"     -> <<"R","e","a","d","T","i","m","e","o","u","t">>
      [] name = "NetworkError"    -> <<"N","e","t","w","o","r","k","E","r","r","o","r">>
      [] name = "HTTPStatusError" -> <<"H","T","T","P","S","t","a","t","u","s","E","r","r","o","r">>
      [] name = "ValueError"      -> <<"V","a","l","u","e","E","r","r","o","r">>
      [] name = "RetryExhausted"  -> <<"R","e","t","r","y","E","x","h","a","u","s","t","e","d">>
      [] OTHER -> <<>>

\* Python's `sub in s` on strings
Contains(s, sub) ==
    \E i \in 0..(Len(s) - Len(sub)) : SubSeq(s, i + 1, i + Len(sub)) = sub

RetryableKinds ==
    { <<"C","o","n","n","e","c","t","i","o","n">>,
      <<"T","i","m","e","o","u","t">>,
      <<"N","e","t","w","o","r","k">> }

Value(v) == [kind |-> "value", name |-> "", status_code |-> NoStatus, value |-> v]
Error(name, code) == [kind |-> "error", name |-> name, status_code |-> code, value |-> ""]
NoOutcome == [kind |-> "none", name |-> "", status_code |-> NoStatus, value |-> ""]

is_retryable_all(e) == TRUE

\* retry_with_backoff, lines 64-75: the classifier
is_retryable(e) ==
    \/ e.status_code # NoStatus /\ e.status_code \in retryable_status_codes
    \/ \E k \in RetryableKinds : Contains(Spelling(e.name), k)

RECURSIVE Pow(_, _)
Pow(b, n) == IF n = 0 THEN 1 ELSE b * Pow(b, n - 1)

Min(a, b) == IF a < b THEN a ELSE b

\* lines 81-87: delay in milliseconds; jitter is random.random() in percent,
\* so the factor 0.75 + random() * 0.5 is (150 + jitter) / 200
backoff_delay(attempt, jitter) ==
    (Min(base_delay_ms * Pow(exponential_base, attempt), max_delay_ms) * (150 + jitter)) \div 200

Jitters == {0, 50, 99}

\* the frame of retry_with_backoff when the loop is entered (lines 53-58)
RetryEnter(maxr) ==
    [ max_retries |-> maxr,
      attempt |-> 0,
      pc |-> IF maxr + 1 > 0 THEN "call" ELSE "raised",
      calls |-> 0,
      sleeps |-> 0,
      delay |-> 0,
      last_exception |-> NoOutcome,
      out |-> IF maxr + 1 > 0 THEN NoOutcome ELSE Error("RetryExhausted", NoStatus),
      trace |-> <<>> ]

NoRetry ==
    [ max_retries |-> 0, attempt |-> 0, pc |-> "none", calls |-> 0, sleeps |-> 0,
      delay |-> 0, last_exception |-> NoOutcome, out |-> NoOutcome, trace |-> <<>> ]

RetryCall_keep_going(r, o, jitter) ==
    LET r1 == [r EXCEPT !.calls = @ + 1, !.trace = Append(@, o)] IN
    IF r.attempt = r.max_retries
    THEN [r1 EXCEPT !.pc = IF o.kind = "value" THEN "returned" ELSE "raised",
                    !.out = o,
                    !.last_exception = IF o.kind = "value" THEN @ ELSE o]
    ELSE [r1 EXCEPT !.last_exception = IF o.kind = "value" THEN @ ELSE o,
                    !.pc = "sleep", !.delay = backoff_delay(r.attempt, jitter)]

(* One pass of the loop body, lines 58-78: invoke func; a value is         *)
(* returned; an exception is recorded, classified and either re-raised or  *)
(* followed by a sleep.  o is what the invocation of func produced.        *)
RetryCall(r, o, jitter) ==
    LET r1 == [r EXCEPT !.calls = @ + 1, !.trace = Append(@, o)] IN
    IF o.kind = "value"
    THEN [r1 EXCEPT !.pc = "returned", !.out = o]
    ELSE IF ~is_retryable(o) \/ r.attempt = r.max_retries
         THEN [r1 EXCEPT !.last_exception = o, !.pc = "raised", !.out = o]
         ELSE [r1 EXCEPT !.last_exception = o, !.pc = "sleep",
                         !.delay = backoff_delay(r.attempt, jitter)]

(* time.sleep(delay) returns and the for loop advances (lines 92, 58);     *)
(* when the range is used up the function raises RetryExhausted (94-97).   *)
RetryWake(r) ==
    IF r.attempt + 1 < r.max_retries + 1
    THEN [r EXCEPT !.attempt = @ + 1, !.sleeps = @ + 1, !.delay = 0, !.pc = "call"]
    ELSE [r EXCEPT !.attempt = @ + 1, !.sleeps = @ + 1, !.delay = 0, !.pc = "raised",
                   !.out = Error("RetryExhausted", NoStatus)]

----------------------------------------------------------------------------
(* resilience.py: ClientCircuitBreaker *)

CLOSED == "closed"
OPEN == "open"
HALF_OPEN == "half_open"

failure_threshold == 5
recovery_timeout == 30
success_threshold == 2

NewBreaker ==
    [_state |-> CLOSED, _failure_count |-> 0, _success_count |-> 0, _opened_at |-> 0]

before_request_stays_open(b, now) ==
    [cb |-> b, raised |-> b._state = OPEN]

before_request_early(b, now) ==
    IF b._state = OPEN /\ now - b._opened_at > 0
    THEN [cb |-> [b EXCEPT !._state = HALF_OPEN, !._success_count = 0], raised |-> FALSE]
    ELSE [cb |-> b, raised |-> b._state = OPEN]

(* before_request (lines 123-137): cb is the breaker afterwards, raised    *)
(* tells whether ConnectionError("Circuit breaker open ...") was raised.   *)
before_request(b, now) ==
    IF b._state = CLOSED
    THEN [cb |-> b, raised |-> FALSE]
    ELSE IF b._state = OPEN
         THEN IF now - b._opened_at >= recovery_timeout
              THEN [cb |-> [b EXCEPT !._state = HALF_OPEN, !._success_count = 0],
                    raised |-> FALSE]
              ELSE [cb |-> b, raised |-> TRUE]
         ELSE [cb |-> b, raised |-> FALSE]

on_success_keeps_count(b) ==
    IF b._state = HALF_OPEN
    THEN IF b._success_count + 1 >= success_threshold
         THEN [b EXCEPT !._success_count = @ + 1, !._state = CLOSED]
         ELSE [b EXCEPT !._success_count = @ + 1]
    ELSE [b EXCEPT !._failure_count = 0]

on_success_close_at_once(b) ==
    IF b._state = HALF_OPEN
    THEN [b EXCEPT !._success_count = @ + 1, !._state = CLOSED, !._failure_count = 0]
    ELSE [b EXCEPT !._failure_count = 0]

\* on_success (lines 139-148)
on_success(b) ==
    IF b._state = HALF_OPEN
    THEN IF b._success_count + 1 >= success_threshold
         THEN [b EXCEPT !._success_count = @ + 1, !._state = CLOSED, !._failure_count = 0]
         ELSE [b EXCEPT !._success_count = @ + 1]
    ELSE [b EXCEPT !._failure_count = 0]

on_failure_late(b, now) ==
    IF b._state = HALF_OPEN
    THEN [b EXCEPT !._failure_count = @ + 1, !._state = OPEN, !._opened_at = now]
    ELSE IF b._failure_count + 1 > failure_threshold
         THEN [b EXCEPT !._failure_count = @ + 1, !._state = OPEN, !._opened_at = now]
         ELSE [b EXCEPT !._failure_count = @ + 1]

\* on_failure (lines 150-162)
on_failure(b, now) ==
    IF b._state = HALF_OPEN
    THEN [b EXCEPT !._failure_count = @ + 1, !._state = OPEN, !._opened_at = now]
    ELSE IF b._failure_count + 1 >= failure_threshold
         THEN [b EXCEPT !._failure_count = @ + 1, !._state = OPEN, !._opened_at = now]
         ELSE [b EXCEPT !._failure_count = @ + 1]

----------------------------------------------------------------------------
(* client.py: the resolution cache *)

wall == mono + skew     \* time.time()

NoEntry == [resolved |-> "", cached_at |-> 0, written |-> 0]

Lifecycle == {"active", "deprecated"}

(* The cache test of _resolve (lines 939-942) and of batch_resolve (lines  *)
(* 545-549): the entry that answers the call, or NoEntry.                  *)
cache_lookup(cache, ttl, m, now) ==
    IF ttl > 0 /\ cache[m] # NoEntry
    THEN IF now - cache[m].cached_at < ttl THEN cache[m] ELSE NoEntry
    ELSE NoEntry

cache_store_always(cache, ttl, m, resolved, now, monoNow) ==
    [cache EXCEPT ![m] = [resolved |-> resolved, cached_at |-> now, written |-> monoNow]]

(* The cache write of _resolve (lines 1003-1004) and of batch_resolve      *)
(* (lines 606-607).  written is history: the monotonic time of the write.  *)
cache_store(cache, ttl, m, resolved, now, monoNow) ==
    IF ttl > 0
    THEN [cache EXCEPT ![m] = [resolved |-> resolved, cached_at |-> now, written |-> monoNow]]
    ELSE cache

----------------------------------------------------------------------------
(* client.py: what the resolver answers *)

NoReply == [status |-> 0, lifecycle |-> "", exc |-> ""]

\* answers to GET /resolve/{path}: a status with a body, or a transport failure
ResolveReplies ==
    {[status |-> 200, lifecycle |-> l, exc |-> ""] : l \in Lifecycle}
    \cup {[status |-> c, lifecycle |-> "", exc |-> ""] : c \in {404, 500, 503}}
    \cup {[status |-> 0, lifecycle |-> "", exc |-> x] : x \in {"ConnectError", "ReadTimeout"}}

\* _do_resolve (lines 948-961): the value returned or the exception raised
_do_resolve(reply) ==
    IF reply.exc # "" THEN Error(reply.exc, NoStatus)
    ELSE IF reply.status = 404 THEN Error("NotFoundError", NoStatus)
    ELSE IF reply.status # 200 THEN Error("ResolutionError", NoStatus)
    ELSE Value(reply.lifecycle)

\* answers to POST /resolve/batch for the paths asked
BatchReplies(paths) ==
    {[status |-> 200, results |-> f, exc |-> ""] :
        f \in UNION {[S -> Lifecycle] : S \in SUBSET paths}}
    \cup {[status |-> c, results |-> <<>>, exc |-> ""] : c \in {404, 500}}
    \cup {[status |-> 0, results |-> <<>>, exc |-> x] : x \in {"ConnectError", "ReadTimeout"}}

\* response.raise_for_status() (line 563) and the transport's own failures
batch_error(reply) ==
    IF reply.exc # "" THEN reply.exc
    ELSE IF reply.status >= 400 THEN "HTTPStatusError"
    ELSE ""

----------------------------------------------------------------------------
(* config.py and client.py: deprecation awareness *)

None == "None"

\* ClientConfig as constructed with no environment variable set
DefaultConfig ==
    [ report_telemetry |-> TRUE,
      deprecation_enabled |-> FALSE,
      warn_on_deprecated |-> TRUE,
      deprecation_callback |-> FALSE ]      \* TRUE: a callable is configured

Configs ==
    [ report_telemetry : BOOLEAN, deprecation_enabled : BOOLEAN,
      warn_on_deprecated : BOOLEAN, deprecation_callback : BOOLEAN ]

\* what the resolver sends along with a deprecated binding
DeprecationNotes ==
    [ a |-> [deprecation_message |-> "use a2", successor |-> "a2"],
      b |-> [deprecation_message |-> None, successor |-> "b2"] ]

\* the ResolvedSource built from the resolver's answer for m
ResolvedSource(m, status) ==
    [ path |-> m,
      status |-> status,
      deprecation_message |-> IF status = "deprecated"
                              THEN DeprecationNotes[m].deprecation_message ELSE None,
      successor |-> IF status = "deprecated" THEN DeprecationNotes[m].successor ELSE None ]

is_deprecated(resolved) == resolved.status = "deprecated"

NoNotices == [warnings |-> <<>>, logged |-> <<>>, callbacks |-> <<>>]

JoinNotices(x, y) ==
    [ warnings |-> x.warnings \o y.warnings,
      logged |-> x.logged \o y.logged,
      callbacks |-> x.callbacks \o y.callbacks ]

deprecation_notices_ungated(cfg, resolved) ==
    IF is_deprecated(resolved) /\ cfg.warn_on_deprecated
    THEN LET msg == [path |-> resolved.path, note |-> resolved.deprecation_message,
                     successor |-> resolved.successor]
         IN [ warnings |-> <<msg>>, logged |-> <<msg>>,
              callbacks |-> IF cfg.deprecation_callback
                            THEN << <<resolved.path, resolved.deprecation_message,
                                      resolved.successor>> >>
                            ELSE <<>> ]
    ELSE NoNotices

(* The deprecation block of _resolve (lines 985-1000) and of batch_resolve *)
(* (lines 589-603): warnings.warn, the WARN log record and the callback.   *)
deprecation_notices(cfg, resolved) ==
    IF cfg.deprecation_enabled /\ is_deprecated(resolved) /\ cfg.warn_on_deprecated
    THEN LET msg == [path |-> resolved.path, note |-> resolved.deprecation_message,
                     successor |-> resolved.successor]
         IN [ warnings |-> <<msg>>, logged |-> <<msg>>,
              callbacks |-> IF cfg.deprecation_callback
                            THEN << <<resolved.path, resolved.deprecation_message,
                                      resolved.successor>> >>
                            ELSE <<>> ]
    ELSE NoNotices

\* the deprecation block run for every item of a batch answer
RECURSIVE NoticesAll(_, _, _)
NoticesAll(cfg, items, S) ==
    IF S = {} THEN NoNotices
    ELSE LET m == CHOOSE x \in S : TRUE IN
         JoinNotices(deprecation_notices(cfg, ResolvedSource(m, items[m])),
                     NoticesAll(cfg, items, S \ {m}))

----------------------------------------------------------------------------
(* client.py: caller threads *)

Range(q) == {q[i] : i \in 1..Len(q)}

IdleThread ==
    [ pc |-> "idle", op |-> "none", args |-> <<>>, uncached |-> <<>>,
      retry |-> NoRetry, data |-> <<>>, returned |-> <<>>,
      hit |-> FALSE, hitAge |-> 0, gets |-> 0, posts |-> 0, got404 |-> FALSE,
      result |-> "none", notices |-> NoNotices ]

BatchArgs == {<<"a">>, <<"b">>, <<"a", "b">>}

RECURSIVE Misses(_, _, _, _)
Misses(q, cache, ttl, now) ==
    IF q = <<>> THEN <<>>
    ELSE IF cache_lookup(cache, ttl, Head(q), now) # NoEntry
         THEN Misses(Tail(q), cache, ttl, now)
         ELSE <<Head(q)>> \o Misses(Tail(q), cache, ttl, now)

MaxOf(S) == IF S = {} THEN 0 ELSE CHOOSE x \in S : \A y \in S : y <= x

(* resolve (lines 510-519) up to the cache test of _resolve (938-942).     *)
CallResolve(t, m) ==
    /\ th[t].pc = "idle"
    /\ LET e == cache_lookup(_cache, cache_ttl, m, wall) IN
       th' = [th EXCEPT ![t] =
                IF e # NoEntry
                THEN [IdleThread EXCEPT !.pc = "done", !.op = "resolve", !.args = <<m>>,
                                        !.hit = TRUE, !.hitAge = mono - e.written,
                                        !.returned = (m :> e.resolved), !.result = "ok"]
                ELSE [IdleThread EXCEPT !.pc = "before_request", !.op = "resolve",
                                        !.args = <<m>>, !.uncached = <<m>>]]
    /\ UNCHANGED <<standalone, config, rd, ora, mono, skew, cache_ttl, _cache, _circuit_breaker, hist, rt>>

(* batch_resolve (lines 534-553): normalise, answer from the cache what is *)
(* live, collect the rest.                                                 *)
CallBatchResolve(t, ms) ==
    /\ th[t].pc = "idle"
    /\ LET miss == Misses(ms, _cache, cache_ttl, wall)
           hits == Range(ms) \ Range(miss)
       IN th' = [th EXCEPT ![t] =
                   [IdleThread EXCEPT
                      !.pc = IF miss = <<>> THEN "done" ELSE "before_request",
                      !.op = "batch_resolve", !.args = ms, !.uncached = miss,
                      !.hit = hits # {},
                      !.hitAge = MaxOf({mono - _cache[m].written : m \in hits}),
                      !.returned = [m \in hits |-> _cache[m].resolved],
                      !.result = IF miss = <<>> THEN "ok" ELSE "none"]]
    /\ UNCHANGED <<standalone, config, rd, ora, mono, skew, cache_ttl, _cache, _circuit_breaker, hist, rt>>

(* self._circuit_breaker.before_request() (lines 946 and 554): outside the *)
(* try block, so its ConnectionError leaves the call as it is.             *)
BeforeRequest(t) ==
    /\ th[t].pc = "before_request"
    /\ LET r == before_request(_circuit_breaker, mono) IN
       /\ _circuit_breaker' = r.cb
       /\ th' = [th EXCEPT ![t] =
                   IF r.raised
                   THEN [@ EXCEPT !.pc = "done", !.result = "ConnectionError"]
                   ELSE IF @.op = "resolve"
                        THEN [@ EXCEPT !.pc = "retry", !.retry = RetryEnter(max_retries)]
                        ELSE [@ EXCEPT !.pc = "post"]]
    /\ UNCHANGED <<standalone, config, rd, ora, mono, skew, cache_ttl, _cache, hist, rt>>

DoResolve_reporting_each_attempt(t, reply, jitter) ==
    /\ th[t].pc = "retry"
    /\ th[t].retry.pc = "call"
    /\ LET r == RetryCall(th[t].retry, _do_resolve(reply), jitter) IN
       /\ th' = [th EXCEPT ![t] =
                   [@ EXCEPT !.retry = r,
                             !.gets = @ + 1,
                             !.got404 = @ \/ reply.status = 404,
                             !.data = IF r.pc = "returned"
                                      THEN (th[t].args[1] :> r.out.value) ELSE <<>>,
                             !.result = IF r.pc = "raised" THEN r.out.name ELSE "none",
                             !.pc = CASE r.pc = "returned" -> "cache_write"
                                      [] r.pc = "raised" /\ r.out.name = "NotFoundError" -> "done"
                                      [] r.pc = "raised" -> "on_failure"
                                      [] OTHER -> "retry"]]
       /\ _circuit_breaker' = IF r.pc = "sleep" THEN on_failure(_circuit_breaker, mono)
                              ELSE _circuit_breaker
    /\ UNCHANGED <<standalone, config, rd, ora, mono, skew, cache_ttl, _cache, hist, rt>>

(* One invocation of _do_resolve by retry_with_backoff (line 963): a GET   *)
(* to /resolve/{path} and what the retry loop does with its outcome.  A    *)
(* NotFoundError leaves _resolve through `except NotFoundError: raise`.    *)
DoResolve(t, reply, jitter) ==
    /\ th[t].pc = "retry"
    /\ th[t].retry.pc = "call"
    /\ LET r == RetryCall(th[t].retry, _do_resolve(reply), jitter) IN
       th' = [th EXCEPT ![t] =
                [@ EXCEPT !.retry = r,
                          !.gets = @ + 1,
                          !.got404 = @ \/ reply.status = 404,
                          !.data = IF r.pc = "returned"
                                   THEN (th[t].args[1] :> r.out.value) ELSE <<>>,
                          !.result = IF r.pc = "raised" THEN r.out.name ELSE "none",
                          !.pc = CASE r.pc = "returned" -> "cache_write"
                                   [] r.pc = "raised" /\ r.out.name = "NotFoundError" -> "done"
                                   [] r.pc = "raised" -> "on_failure"
                                   [] OTHER -> "retry"]]
    /\ UNCHANGED <<standalone, config, rd, ora, mono, skew, cache_ttl, _cache, _circuit_breaker, hist, rt>>

\* time.sleep(delay) inside retry_with_backoff returns
ResolveSleep(t) ==
    /\ th[t].pc = "retry"
    /\ th[t].retry.pc = "sleep"
    /\ LET r == RetryWake(th[t].retry) IN
       th' = [th EXCEPT ![t] =
                [@ EXCEPT !.retry = r,
                          !.result = IF r.pc = "raised" THEN r.out.name ELSE "none",
                          !.pc = IF r.pc = "raised" THEN "on_failure" ELSE "retry"]]
    /\ UNCHANGED <<standalone, config, rd, ora, mono, skew, cache_ttl, _cache, _circuit_breaker, hist, rt>>

(* _resolve lines 965-1004: build the ResolvedSource, run the deprecation   *)
(* block and write the cache.                                              *)
CacheWrite(t) ==
    /\ th[t].pc = "cache_write"
    /\ LET m == th[t].args[1] IN
       /\ _cache' = cache_store(_cache, cache_ttl, m, th[t].data[m], wall, mono)
       /\ th' = [th EXCEPT ![t] =
                   [@ EXCEPT !.pc = "on_success", !.returned = th[t].data,
                             !.notices = deprecation_notices(
                                            config, ResolvedSource(m, th[t].data[m]))]]
    /\ UNCHANGED <<standalone, config, rd, ora, mono, skew, cache_ttl, _circuit_breaker, hist, rt>>

(* POST /resolve/batch (lines 556-564): any status >= 400, 404 included,   *)
(* raises from raise_for_status into `except Exception` (line 610).        *)
BatchPost(t, reply) ==
    /\ th[t].pc = "post"
    /\ DOMAIN reply.results \subseteq Range(th[t].uncached)
    /\ th' = [th EXCEPT ![t] =
                [@ EXCEPT !.posts = @ + 1,
                          !.got404 = @ \/ reply.status = 404,
                          !.data = reply.results,
                          !.result = batch_error(reply),
                          !.pc = IF batch_error(reply) # "" THEN "on_failure"
                                 ELSE "batch_store"]]
    /\ UNCHANGED <<standalone, config, rd, ora, mono, skew, cache_ttl, _cache, _circuit_breaker, hist, rt>>

RECURSIVE StoreAll(_, _, _, _, _, _)
StoreAll(cache, ttl, items, S, now, monoNow) ==
    IF S = {} THEN cache
    ELSE LET m == CHOOSE x \in S : TRUE IN
         StoreAll(cache_store(cache, ttl, m, items[m], now, monoNow),
                  ttl, items, S \ {m}, now, monoNow)

(* batch_resolve lines 566-607: per item, record the result, run the       *)
(* deprecation block and write the cache.                                  *)
BatchStore(t) ==
    /\ th[t].pc = "batch_store"
    /\ _cache' = StoreAll(_cache, cache_ttl, th[t].data, DOMAIN th[t].data, wall, mono)
    /\ th' = [th EXCEPT ![t] =
                [@ EXCEPT !.pc = "on_success", !.returned = th[t].data @@ @,
                          !.notices = NoticesAll(config, th[t].data, DOMAIN th[t].data)]]
    /\ UNCHANGED <<standalone, config, rd, ora, mono, skew, cache_ttl, _circuit_breaker, hist, rt>>

\* self._circuit_breaker.on_success() and return (lines 1006-1007, 609-614)
OnSuccess(t) ==
    /\ th[t].pc = "on_success"
    /\ _circuit_breaker' = on_success(_circuit_breaker)
    /\ th' = [th EXCEPT ![t] = [@ EXCEPT !.pc = "done", !.result = "ok"]]
    /\ hist' = [streak |-> 0, served |-> hist.served \cup DOMAIN th[t].data]
    /\ UNCHANGED <<standalone, config, rd, ora, mono, skew, cache_ttl, _cache, rt>>

OnFailure_caching(t) ==
    /\ th[t].pc = "on_failure"
    /\ _circuit_breaker' = on_failure(_circuit_breaker, mono)
    /\ _cache' = [_cache EXCEPT ![th[t].args[1]] =
                     [resolved |-> "active", cached_at |-> wall, written |-> mono]]
    /\ th' = [th EXCEPT ![t] = [@ EXCEPT !.pc = "done"]]
    /\ hist' = [hist EXCEPT !.streak = IF th[t].op = "resolve"
                                       THEN Min(@ + 1, failure_threshold) ELSE @]
    /\ UNCHANGED <<standalone, config, rd, ora, mono, skew, cache_ttl, rt>>

\* except Exception: on_failure(); raise (lines 1010-1012, 610-612)
OnFailure(t) ==
    /\ th[t].pc = "on_failure"
    /\ _circuit_breaker' = on_failure(_circuit_breaker, mono)
    /\ th' = [th EXCEPT ![t] = [@ EXCEPT !.pc = "done"]]
    /\ hist' = [hist EXCEPT !.streak = IF th[t].op = "resolve"
                                       THEN Min(@ + 1, failure_threshold) ELSE @]
    /\ UNCHANGED <<standalone, config, rd, ora, mono, skew, cache_ttl, _cache, rt>>

\* the caller has the result or the exception; the thread is free again
Return(t) ==
    /\ th[t].pc = "done"
    /\ th' = [th EXCEPT ![t] = IdleThread]
    /\ UNCHANGED <<standalone, config, rd, ora, mono, skew, cache_ttl, _cache, _circuit_breaker, hist, rt>>

\* time passes on both clocks
Tick ==
    /\ mono + TickStep <= MaxTime
    /\ mono' = mono + TickStep
    /\ UNCHANGED <<standalone, config, rd, ora, skew, cache_ttl, _cache, _circuit_breaker, th, hist, rt>>

(* The system clock is set back or forward (NTP, an operator): time.time() *)
(* moves, time.monotonic() does not.                                       *)
AdjustClock(d) ==
    /\ skew + d >= -MaxSkew
    /\ skew + d <= MaxSkew
    /\ skew' = skew + d
    /\ UNCHANGED <<standalone, config, rd, ora, mono, cache_ttl, _cache, _circuit_breaker, th, hist, rt>>

----------------------------------------------------------------------------
(* client.py: read, batch_read and the thin GETs *)

\* source_type of the binding the resolver holds for each moniker
SourceType == [a |-> "rest", b |-> "oracle"]

NoResult == [kind |-> "none", name |-> "", cause |-> "", data |-> <<>>]
Returned(data) == [kind |-> "value", name |-> "", cause |-> "", data |-> <<data>>]
Raised(name, cause) == [kind |-> "error", name |-> name, cause |-> cause, data |-> <<>>]

(* The locals of read (lines 408-414) and what the call is about to give   *)
(* its caller.  row_count is <<>> for None and <<n>> for n.  resolved and  *)
(* in_fetch are history: _resolve returned; the failure came from the      *)
(* adapter.  telemetry lists the records POSTed to /telemetry/access and   *)
(* telemetry_failed tells whether such a POST failed.                      *)
NoRead ==
    [ pc |-> "none", op |-> "none", moniker |-> None,
      outcome |-> "success", error_message |-> None, row_count |-> <<>>,
      source_type |-> None, deprecated |-> FALSE, successor |-> None,
      resolved |-> FALSE, in_fetch |-> FALSE, status |-> 0,
      out |-> NoResult, results |-> <<>>, telemetry |-> <<>>,
      telemetry_failed |-> FALSE ]

\* what an adapter's fetch returns: a list, a mapping or something else
Data == {[type |-> ty, len |-> n] : ty \in {"list", "dict", "other"}, n \in {0, 2}}

\* get_adapter(source_type) and adapter.fetch(...): data returned or an error raised
AdapterOutcomes ==
    {Returned(d) : d \in Data}
    \cup {Raised(n, "") : n \in {"NotFoundError", "TimeoutError", "ValueError"}}

read_after_resolve_fetch_anyway(f, result, resolved) ==
    IF result = "ok"
    THEN [f EXCEPT !.pc = "fetch", !.resolved = TRUE,
                   !.source_type = SourceType[resolved.path],
                   !.deprecated = is_deprecated(resolved),
                   !.successor = resolved.successor]
    ELSE IF result = "NotFoundError"
    THEN [f EXCEPT !.pc = "finally", !.outcome = "not_found",
                   !.out = Raised("NotFoundError", "")]
    ELSE [f EXCEPT !.pc = "fetch", !.outcome = "error", !.error_message = result]

read_after_resolve_untagged(f, result, resolved) ==
    IF result = "ok"
    THEN [f EXCEPT !.pc = "fetch", !.resolved = TRUE,
                   !.source_type = SourceType[resolved.path],
                   !.deprecated = is_deprecated(resolved),
                   !.successor = resolved.successor]
    ELSE IF result = "NotFoundError"
    THEN [f EXCEPT !.pc = "finally", !.outcome = "error", !.error_message = result,
                   !.out = Raised("NotFoundError", "")]
    ELSE [f EXCEPT !.pc = "finally", !.outcome = "error", !.error_message = result,
                   !.out = Raised("FetchError", result)]

(* read lines 422-425 and the handlers of lines 438-444 for an exception   *)
(* that comes out of self._resolve(moniker).                               *)
read_after_resolve(f, result, resolved) ==
    IF result = "ok"
    THEN [f EXCEPT !.pc = "fetch", !.resolved = TRUE,
                   !.source_type = SourceType[resolved.path],
                   !.deprecated = is_deprecated(resolved),
                   !.successor = resolved.successor]
    ELSE IF result = "NotFoundError"
    THEN [f EXCEPT !.pc = "finally", !.outcome = "not_found",
                   !.out = Raised("NotFoundError", "")]
    ELSE [f EXCEPT !.pc = "finally", !.outcome = "error", !.error_message = result,
                   !.out = Raised("FetchError", result)]

(* read lines 428-436 and the handlers of lines 438-444 for an exception   *)
(* that comes out of get_adapter or adapter.fetch.                         *)
read_after_fetch(f, o) ==
    IF o.kind = "value"
    THEN [f EXCEPT !.pc = "finally", !.out = o,
                   !.row_count = IF o.data[1].type \in {"list", "dict"}
                                 THEN <<o.data[1].len>> ELSE <<>>]
    ELSE IF o.name = "NotFoundError"
    THEN [f EXCEPT !.pc = "finally", !.in_fetch = TRUE, !.outcome = "not_found",
                   !.out = Raised("NotFoundError", "")]
    ELSE [f EXCEPT !.pc = "finally", !.in_fetch = TRUE, !.outcome = "error",
                   !.error_message = o.name, !.out = Raised("FetchError", o.name)]

\* answers to POST /telemetry/access: a status, or the 5 s timeout, or no connection
TelemetryReplies ==
    {[status |-> c, exc |-> ""] : c \in {200, 500}}
    \cup {[status |-> 0, exc |-> x] : x \in {"ReadTimeout", "ConnectError"}}

_report_telemetry_raising(f, reply) ==
    [ posts |-> << [moniker |-> f.moniker, outcome |-> f.outcome,
                    source_type |-> f.source_type, row_count |-> f.row_count,
                    error_message |-> f.error_message, deprecated |-> f.deprecated,
                    successor |-> f.successor] >>,
      raised |-> reply.exc ]

(* _report_telemetry (lines 1028-1058): one POST; client.post raises for a *)
(* transport failure only, and `except Exception: pass` swallows it.       *)
_report_telemetry(f, reply) ==
    [ posts |-> << [moniker |-> f.moniker, outcome |-> f.outcome,
                    source_type |-> f.source_type, row_count |-> f.row_count,
                    error_message |-> f.error_message, deprecated |-> f.deprecated,
                    successor |-> f.successor] >>,
      raised |-> "" ]

read_finally_on_return_only(f, cfg, reply) ==
    IF cfg.report_telemetry /\ f.out.kind = "value"
    THEN LET r == _report_telemetry(f, reply) IN
         [f EXCEPT !.pc = "done", !.telemetry = @ \o r.posts,
                   !.telemetry_failed = reply.exc # "" \/ reply.status >= 400]
    ELSE [f EXCEPT !.pc = "done"]

\* the finally block of read (lines 446-459)
read_finally(f, cfg, reply) ==
    IF cfg.report_telemetry
    THEN LET r == _report_telemetry(f, reply) IN
         [f EXCEPT !.pc = "done", !.telemetry = @ \o r.posts,
                   !.telemetry_failed = reply.exc # "" \/ reply.status >= 400,
                   !.out = IF r.raised # "" THEN Raised(r.raised, "") ELSE @]
    ELSE [f EXCEPT !.pc = "done"]

(* read (lines 416-422): normalise, then self._resolve(moniker) up to its   *)
(* cache test (lines 938-942).                                             *)
CallRead(t, m) ==
    /\ th[t].pc = "idle"
    /\ rd[t].pc = "none"
    /\ LET e == cache_lookup(_cache, cache_ttl, m, wall) IN
       th' = [th EXCEPT ![t] =
                IF e # NoEntry
                THEN [IdleThread EXCEPT !.pc = "done", !.op = "resolve", !.args = <<m>>,
                                        !.hit = TRUE, !.hitAge = mono - e.written,
                                        !.returned = (m :> e.resolved), !.result = "ok"]
                ELSE [IdleThread EXCEPT !.pc = "before_request", !.op = "resolve",
                                        !.args = <<m>>, !.uncached = <<m>>]]
    /\ rd' = [rd EXCEPT ![t] = [NoRead EXCEPT !.pc = "resolve", !.op = "read",
                                               !.moniker = m]]
    /\ UNCHANGED <<standalone, mono, skew, cache_ttl, _cache, _circuit_breaker, hist, rt, config, ora>>

\* self._resolve(moniker) has returned or raised inside read
ReadResolved(t) ==
    /\ rd[t].pc = "resolve"
    /\ rd[t].op = "read"
    /\ th[t].pc = "done"
    /\ LET m == rd[t].moniker
           resolved == ResolvedSource(m, IF th[t].result = "ok"
                                         THEN th[t].returned[m] ELSE None)
       IN rd' = [rd EXCEPT ![t] = read_after_resolve(@, th[t].result, resolved)]
    /\ UNCHANGED <<standalone, mono, skew, cache_ttl, _cache, _circuit_breaker, th, hist, rt, config, ora>>

\* get_adapter and adapter.fetch inside read (lines 428-436)
AdapterFetch(t, o) ==
    /\ rd[t].pc = "fetch"
    /\ rd[t].op = "read"
    /\ rd' = [rd EXCEPT ![t] = read_after_fetch(@, o)]
    /\ UNCHANGED <<standalone, mono, skew, cache_ttl, _cache, _circuit_breaker, th, hist, rt, config, ora>>

\* the finally block of read, with the resolver's answer to the telemetry POST
ReadFinally(t, reply) ==
    /\ rd[t].pc = "finally"
    /\ rd' = [rd EXCEPT ![t] = read_finally(@, config, reply)]
    /\ UNCHANGED <<standalone, mono, skew, cache_ttl, _cache, _circuit_breaker, th, hist, rt, config, ora>>

\* the caller of read, batch_read or a thin GET has its result; the thread is free
ReadReturn(t) ==
    /\ rd[t].pc = "done"
    /\ rd' = [rd EXCEPT ![t] = NoRead]
    /\ th' = [th EXCEPT ![t] = IdleThread]
    /\ UNCHANGED <<standalone, mono, skew, cache_ttl, _cache, _circuit_breaker, hist, rt, config, ora>>

(* batch_read line 630: self.batch_resolve(monikers), up to the end of its *)
(* cache pass (lines 534-553).                                             *)
CallBatchRead(t, ms) ==
    /\ th[t].pc = "idle"
    /\ rd[t].pc = "none"
    /\ LET miss == Misses(ms, _cache, cache_ttl, wall)
           hits == Range(ms) \ Range(miss)
       IN th' = [th EXCEPT ![t] =
                   [IdleThread EXCEPT
                      !.pc = IF miss = <<>> THEN "done" ELSE "before_request",
                      !.op = "batch_resolve", !.args = ms, !.uncached = miss,
                      !.hit = hits # {},
                      !.hitAge = MaxOf({mono - _cache[m].written : m \in hits}),
                      !.returned = [m \in hits |-> _cache[m].resolved],
                      !.result = IF miss = <<>> THEN "ok" ELSE "none"]]
    /\ rd' = [rd EXCEPT ![t] = [NoRead EXCEPT !.pc = "resolve", !.op = "batch_read"]]
    /\ UNCHANGED <<standalone, mono, skew, cache_ttl, _cache, _circuit_breaker, hist, rt, config, ora>>

(* batch_read lines 630-641 once batch_resolve is over: its exception      *)
(* leaves batch_read as it is (the call is outside any try); otherwise     *)
(* every resolved item is fetched and its data or its exception recorded.  *)
batch_read_rest(f, result, returned, outcomes) ==
    IF result # "ok"
    THEN [f EXCEPT !.pc = "done", !.out = Raised(result, "")]
    ELSE [f EXCEPT !.pc = "done", !.resolved = TRUE,
                   !.out = Returned([type |-> "dict", len |-> Cardinality(DOMAIN returned)]),
                   !.results = [p \in DOMAIN returned |-> outcomes[p]]]

\* what the adapters do for the items of one batch_read
BatchOutcomes == UNION {[S -> AdapterOutcomes] : S \in SUBSET Monikers}

BatchReadFetch(t, outcomes) ==
    /\ rd[t].pc = "resolve"
    /\ rd[t].op = "batch_read"
    /\ th[t].pc = "done"
    /\ DOMAIN outcomes = (IF th[t].result = "ok" THEN DOMAIN th[t].returned ELSE {})
    /\ rd' = [rd EXCEPT ![t] = batch_read_rest(@, th[t].result, th[t].returned, outcomes)]
    /\ UNCHANGED <<standalone, mono, skew, cache_ttl, _cache, _circuit_breaker, th, hist, rt, config, ora>>

\* the GETs that map a 404 to NotFoundError before raise_for_status
ChecksNotFound == {"describe", "lineage", "fetch", "metadata", "sample", "schema"}

ThinMethods ==
    ChecksNotFound \cup {"list_children", "tree", "search", "catalog_stats"}

\* answers of a resolver endpoint to one GET
ThinReplies ==
    {[status |-> c, exc |-> ""] : c \in {200, 403, 404, 500}}
    \cup {[status |-> 0, exc |-> x] : x \in {"ReadTimeout", "ConnectError"}}

(* describe, list_children, lineage (lines 461-508), fetch (643-703),      *)
(* metadata, sample, tree, search, catalog_stats, schema (705-934): what   *)
(* the method gives its caller for the endpoint's answer.                  *)
thin_get(method, reply) ==
    IF reply.exc # "" THEN Raised(reply.exc, "")
    ELSE IF reply.status = 404 /\ method \in ChecksNotFound THEN Raised("NotFoundError", "")
    ELSE IF reply.status = 403 /\ method = "fetch" THEN Raised("AccessDeniedError", "")
    ELSE IF reply.status >= 400 THEN Raised("HTTPStatusError", "")
    ELSE Returned([type |-> "other", len |-> 0])

ThinGet(t, method, reply) ==
    /\ th[t].pc = "idle"
    /\ rd[t].pc = "none"
    /\ rd' = [rd EXCEPT ![t] = [NoRead EXCEPT !.pc = "done", !.op = method,
                                               !.status = reply.status,
                                               !.out = thin_get(method, reply)]]
    /\ UNCHANGED <<standalone, mono, skew, cache_ttl, _cache, _circuit_breaker, th, hist, rt, config, ora>>

----------------------------------------------------------------------------
(* adapters/oracle.py: OracleAdapter, its connection cache and the driver *)

Users == {"", "u"}          \* oracle_user; "" when not configured
Passwords == {"", "pw"}
Dsns == {"d1", "d2"}
Queries == {"", "SELECT 1 FROM DUAL"}

\* _get_connection line 276: f"{user}@{dsn}"
cache_key(user, dsn) == user \o "@" \o dsn

Keys == {cache_key(u, d) : u \in Users, d \in Dsns}

ConnIds == 1..MaxConns

(* str(e) of a driver error, as the codes it mentions in order; <<>> is no *)
(* error.  The last message is a recursive-SQL error that wraps ORA-00942. *)
DriverErrors ==
    { <<"ORA-12541">>, <<"ORA-01017">>, <<"ORA-12170">>, <<"ORA-00942">>,
      <<"ORA-01555">>, <<"ORA-00604", "ORA-00942">> }

NoError == <<>>

\* Python's `code in error_msg`
Mentions(msg, code) == \E i \in 1..Len(msg) : msg[i] = code

EmptyCache == [k \in {} |-> 0]

NoOp ==
    [ op |-> "none", key |-> "", probe |-> "none", connects |-> 0, conn |-> 0,
      phase |-> "", cause |-> NoError, raised |-> "", closed |-> {},
      swallowed |-> {} ]

(* OracleAdapter() (lines 43-44) with a driver that has opened nothing.    *)
(* next is the connection the driver hands out next; closes counts the     *)
(* close() calls per connection; opened, stale and cleared count, per key, *)
(* the connections cached, the failed probes and the entries cleared; last *)
(* describes the call that ended last (swallowed: the connections whose   *)
(* close() raised).                                                        *)
NewOracleAdapter ==
    [ _connection_cache |-> EmptyCache,
      next |-> 1,
      closes |-> [c \in ConnIds |-> 0],
      opened |-> [k \in Keys |-> 0],
      stale |-> [k \in Keys |-> 0],
      cleared |-> [k \in Keys |-> 0],
      last |-> NoOp ]

Without(cache, key) == [k \in DOMAIN cache \ {key} |-> cache[k]]

_get_connection_never_reuse(o, key, ping, connect) ==
    LET cached == key \in DOMAIN o._connection_cache
        o1 == IF cached
              THEN [o EXCEPT !._connection_cache = Without(@, key)]
              ELSE o
        probe == IF ~cached THEN "none" ELSE IF ping = "ok" THEN "ok" ELSE "failed"
    IN IF connect # NoError
       THEN [ ora |-> o1, conn |-> 0, probe |-> probe, connects |-> 1,
              error |-> connect ]
       ELSE [ ora |-> [o1 EXCEPT !._connection_cache = (key :> o1.next) @@ @,
                                 !.next = @ + 1,
                                 !.opened[key] = @ + 1],
              conn |-> o1.next, probe |-> probe, connects |-> 1, error |-> NoError ]

(* _get_connection (lines 274-291): ping is what conn.ping() does to a     *)
(* cached connection, connect what oracledb.connect does.                  *)
_get_connection(o, key, ping, connect) ==
    LET cached == key \in DOMAIN o._connection_cache
        reuse == cached /\ ping = "ok"
        o1 == IF cached /\ ~reuse
              THEN [o EXCEPT !._connection_cache = Without(@, key), !.stale[key] = @ + 1]
              ELSE o
        probe == IF ~cached THEN "none" ELSE IF reuse THEN "ok" ELSE "failed"
    IN IF reuse
       THEN [ ora |-> o, conn |-> o._connection_cache[key], probe |-> probe,
              connects |-> 0, error |-> NoError ]
       ELSE IF connect # NoError
            THEN [ ora |-> o1, conn |-> 0, probe |-> probe, connects |-> 1,
                   error |-> connect ]
            ELSE [ ora |-> [o1 EXCEPT !._connection_cache = (key :> o1.next) @@ @,
                                      !.next = @ + 1,
                                      !.opened[key] = @ + 1],
                   conn |-> o1.next, probe |-> probe, connects |-> 1, error |-> NoError ]

\* fetch lines 107-127: the exception raised for a driver error caught there
translate(msg) ==
    IF Mentions(msg, "ORA-12541") THEN "ConnectionError"
    ELSE IF Mentions(msg, "ORA-01017") THEN "PermissionError"
    ELSE IF Mentions(msg, "ORA-12170") THEN "TimeoutError"
    ELSE IF Mentions(msg, "ORA-00942") THEN "ValueError"
    ELSE "DatabaseError"

(* OracleAdapter.fetch (lines 46-127).  The connection is obtained on line *)
(* 80, before the try block of line 82, so an error of oracledb.connect    *)
(* leaves fetch as the driver raised it.                                   *)
oracle_fetch(o, user, password, dsn, query, ping, connect, exec) ==
    LET key == cache_key(user, dsn)
        op == [NoOp EXCEPT !.op = "fetch", !.key = key]
    IN IF user = "" \/ password = "" \/ query = ""
       THEN [o EXCEPT !.last = [op EXCEPT !.raised = "ValueError"]]
       ELSE LET g == _get_connection(o, key, ping, connect)
                op1 == [op EXCEPT !.probe = g.probe, !.connects = g.connects,
                                  !.conn = g.conn]
            IN IF g.error # NoError
               THEN [g.ora EXCEPT !.last = [op1 EXCEPT !.phase = "connect",
                                                       !.cause = g.error,
                                                       !.raised = "DatabaseError"]]
               ELSE IF exec # NoError
               THEN [g.ora EXCEPT !.last = [op1 EXCEPT !.phase = "execute",
                                                       !.cause = exec,
                                                       !.raised = translate(exec)]]
               ELSE [g.ora EXCEPT !.last = op1]

close_connections_until_error(o, failing) ==
    LET conns == {o._connection_cache[k] : k \in DOMAIN o._connection_cache} IN
    IF conns \cap failing # {}
    THEN [o EXCEPT !.closes = [c \in ConnIds |-> IF c \in conns \cap failing
                                                  THEN @[c] + 1 ELSE @[c]],
                   !.last = [NoOp EXCEPT !.op = "close", !.closed = conns \cap failing,
                                         !.raised = "DatabaseError"]]
    ELSE [o EXCEPT !.closes = [c \in ConnIds |-> IF c \in conns THEN @[c] + 1 ELSE @[c]],
                   !._connection_cache = EmptyCache,
                   !.cleared = [k \in Keys |-> IF k \in DOMAIN o._connection_cache
                                                THEN @[k] + 1 ELSE @[k]],
                   !.last = [NoOp EXCEPT !.op = "close", !.closed = conns]]

(* close_connections (lines 293-300): close() is called on every cached    *)
(* connection, failing is the set of connections whose close() raises.     *)
close_connections(o, failing) ==
    LET conns == {o._connection_cache[k] : k \in DOMAIN o._connection_cache} IN
    [o EXCEPT !.closes = [c \in ConnIds |-> IF c \in conns THEN @[c] + 1 ELSE @[c]],
              !._connection_cache = EmptyCache,
              !.cleared = [k \in Keys |-> IF k \in DOMAIN o._connection_cache
                                           THEN @[k] + 1 ELSE @[k]],
              !.last = [NoOp EXCEPT !.op = "close", !.closed = conns,
                                    !.swallowed = conns \cap failing]]

OracleFetch(user, password, dsn, query, ping, connect, exec) ==
    /\ LET key == cache_key(user, dsn) IN
       (key \notin DOMAIN ora._connection_cache \/ ping # "ok") => ora.next <= MaxConns
    /\ ora' = oracle_fetch(ora, user, password, dsn, query, ping, connect, exec)
    /\ UNCHANGED <<standalone, mono, skew, cache_ttl, _cache, _circuit_breaker, th, hist, rt, config, rd>>

CloseConnections(failing) ==
    /\ ora' = close_connections(ora, failing)
    /\ UNCHANGED <<standalone, mono, skew, cache_ttl, _cache, _circuit_breaker, th, hist, rt, config, rd>>

----------------------------------------------------------------------------
(* adapters/oracle.py: query rewriting (_build_query and its helpers) *)

_RESERVED_PARAMS ==
    {"moniker_version", "moniker_revision", "as_of", "limit", "offset",
     "order_by", "method", "response_path", "query_params", "moniker_params"}

\* A string is the sequence of its words, punctuation marks and blanks, so
\* that str.find, slicing, rstrip and concatenation are computed on it.
\* str.upper() on one of them:
Upper(tok) ==
    CASE tok = "select" -> "SELECT"
      [] tok = "from" -> "FROM"
      [] tok = "where" -> "WHERE"
      [] tok = "order" -> "ORDER"
      [] tok = "by" -> "BY"
      [] tok = "fetch" -> "FETCH"
      [] OTHER -> tok

upper(s) == [i \in 1..Len(s) |-> Upper(s[i])]

Lowest(S) == CHOOSE x \in S : \A y \in S : x <= y

\* s.find(sub, start): the lowest 0-based index at or after start where sub
\* occurs in s, -1 when there is none
find(s, sub, start) ==
    LET hits == {i \in start..(Len(s) - Len(sub)) : SubSeq(s, i + 1, i + Len(sub)) = sub}
    IN  IF hits = {} THEN -1 ELSE Lowest(hits)

\* s[:n] and s[n:]
Before(s, n) == SubSeq(s, 1, n)
From(s, n) == SubSeq(s, n + 1, Len(s))

\* s.rstrip(chars)
RECURSIVE rstrip(_, _)
rstrip(s, chars) ==
    IF s # <<>> /\ s[Len(s)] \in chars THEN rstrip(Before(s, Len(s) - 1), chars) ELSE s

\* sep.join(parts)
RECURSIVE join(_, _)
join(sep, parts) ==
    IF parts = <<>> THEN <<>>
    ELSE IF Len(parts) = 1 THEN parts[1]
    ELSE parts[1] \o sep \o join(sep, Tail(parts))

\* " ".join(words)
Words(words) == join(<<" ">>, [i \in 1..Len(words) |-> <<words[i]>>])

\* Parameter values: None, a str, an int (text is str(value)), a list (elems)
\* and a dict (items, its entries in insertion order).
PNone == [kind |-> "none", text |-> "None", elems |-> <<>>, items |-> <<>>]
PStr(x) == [kind |-> "str", text |-> x, elems |-> <<>>, items |-> <<>>]
PInt(x) == [kind |-> "int", text |-> x, elems |-> <<>>, items |-> <<>>]
PList(es) == [kind |-> "list", text |-> "[...]", elems |-> es, items |-> <<>>]
PDict(entries) == [kind |-> "dict", text |-> "{...}", elems |-> <<>>, items |-> entries]

Entry(key, value) == [key |-> key, value |-> value]

\* bool(value)
Truthy(v) ==
    CASE v.kind = "none" -> FALSE
      [] v.kind = "str" -> v.text # ""
      [] v.kind = "int" -> v.text # "0"
      [] v.kind = "list" -> v.elems # <<>>
      [] v.kind = "dict" -> v.items # <<>>

KeysOf(d) == {d[i].key : i \in 1..Len(d)}

\* d.get(key, default)
get(d, key, default) ==
    IF key \in KeysOf(d)
    THEN d[CHOOSE i \in 1..Len(d) : d[i].key = key].value
    ELSE default

\* d[key] = value: a key already present keeps its place
put(d, key, value) ==
    IF key \in KeysOf(d)
    THEN [i \in 1..Len(d) |-> IF d[i].key = key THEN Entry(key, value) ELSE d[i]]
    ELSE Append(d, Entry(key, value))

\* str.isdigit() on the values that occur
Numerals == {"0", "1", "2", "5", "7", "10", "20", "100", "12345"}
isdigit(text) == text \in Numerals

\* _inject_flashback (lines 171-200)
_inject_flashback(query, as_of) ==
    LET query_upper == upper(query)
        flashback_clause ==
            IF isdigit(as_of)
            THEN <<" ", "AS", " ", "OF", " ", "SCN", " ", as_of>>
            ELSE <<" ", "AS", " ", "OF", " ", "TIMESTAMP", " ", "TO_TIMESTAMP", "(",
                   "'", as_of, "'", ",", " ", "'", "YYYY-MM-DD HH24:MI:SS", "'", ")">>
        from_pos == find(query_upper, <<" ", "FROM", " ">>, 0)
        end_markers == {<<" ", "WHERE", " ">>, <<" ", "GROUP", " ">>, <<" ", "ORDER", " ">>,
                        <<" ", "HAVING", " ">>, <<" ", "UNION", " ">>, <<";">>}
        found == {find(query_upper, marker, from_pos + 3) : marker \in end_markers} \ {-1}
        end_pos == Lowest(found \cup {Len(query)})
    IN  IF from_pos = -1 THEN query
        ELSE Before(query, end_pos) \o flashback_clause \o From(query, end_pos)

\* the loops of _extract_filters (lines 209-216): top tells the top-level
\* loop, which also skips dict values, from the loop over moniker_params
RECURSIVE extract_from(_, _, _)
extract_from(filters, entries, top) ==
    IF entries = <<>> THEN filters
    ELSE LET e == Head(entries)
             kept == /\ e.key \notin _RESERVED_PARAMS
                     /\ (top => e.value.kind # "dict")
                     /\ e.value.kind # "none"
         IN  extract_from(IF kept THEN put(filters, e.key, e.value) ELSE filters,
                          Tail(entries), top)

\* as _extract_filters, but every key of moniker_params is taken
_extract_filters_nested_unchecked(params) ==
    LET moniker_params == get(params, "moniker_params", PDict(<<>>))
    IN  extract_from(IF moniker_params.kind = "dict" THEN moniker_params.items ELSE <<>>,
                     params, TRUE)

\* _extract_filters (lines 202-218)
_extract_filters(params) ==
    LET moniker_params == get(params, "moniker_params", PDict(<<>>))
        nested == IF moniker_params.kind = "dict"
                  THEN extract_from(<<>>, moniker_params.items, FALSE)
                  ELSE <<>>
    IN  extract_from(nested, params, TRUE)

\* one condition of _inject_where_clause (lines 229-240)
condition(key, value) ==
    CASE value.kind = "str" -> <<key, " ", "=", " ", "'", value.text, "'">>
      [] value.kind = "list" ->
            LET values_str ==
                    IF \A i \in 1..Len(value.elems) : value.elems[i].kind = "str"
                    THEN join(<<",", " ">>, [i \in 1..Len(value.elems) |->
                                              <<"'", value.elems[i].text, "'">>])
                    ELSE join(<<",", " ">>, [i \in 1..Len(value.elems) |->
                                              <<value.elems[i].text>>])
            IN  <<key, " ", "IN", " ", "(">> \o values_str \o <<")">>
      [] OTHER -> <<key, " ", "=", " ", value.text>>

\* _inject_where_clause (lines 220-259)
_inject_where_clause(query, filters) ==
    LET query_upper == upper(query)
        conditions == [i \in 1..Len(filters) |-> condition(filters[i].key, filters[i].value)]
        condition_str == join(<<" ", "AND", " ">>, conditions)
        where_pos == find(query_upper, <<" ", "WHERE", " ">>, 0)
        end_markers == {<<" ", "GROUP", " ">>, <<" ", "ORDER", " ">>,
                        <<" ", "HAVING", " ">>, <<" ", "UNION", " ">>, <<";">>}
        found == {find(query_upper, marker, 0) : marker \in end_markers} \ {-1}
        insert_pos == Lowest(found \cup {Len(query)})
    IN  IF filters = <<>> THEN query
        ELSE IF where_pos # -1
        THEN Before(query, where_pos + 3) \o condition_str \o <<" ", "AND", " ">>
                 \o From(query, where_pos + 3)
        ELSE Before(query, insert_pos) \o <<" ", "WHERE", " ">> \o condition_str
                 \o From(query, insert_pos)

\* _inject_limit (lines 261-272)
_inject_limit(query, limit) ==
    IF find(upper(query), <<"FETCH", " ">>, 0) # -1 THEN query
    ELSE rstrip(rstrip(query, {";"}), {" "})
             \o <<" ", "FETCH", " ", "FIRST", " ", limit.text, " ", "ROWS", " ", "ONLY">>

\* as _build_query, with the limit injected before the filters
_build_query_limit_first(query, params) ==
    LET first == get(params, "as_of", PNone)
        as_of == IF Truthy(first) THEN first ELSE get(params, "moniker_version", PNone)
        q1 == IF Truthy(as_of) THEN _inject_flashback(query, as_of.text) ELSE query
        limit == get(params, "limit", PNone)
        q2 == IF limit.kind # "none" THEN _inject_limit(q1, limit) ELSE q1
        filters == _extract_filters(params)
        q3 == IF filters # <<>> THEN _inject_where_clause(q2, filters) ELSE q2
    IN  IF query = <<>> THEN <<None>> ELSE q3

\* _build_query (lines 144-169); <<None>> is the result None
_build_query(query, params) ==
    LET first == get(params, "as_of", PNone)
        as_of == IF Truthy(first) THEN first ELSE get(params, "moniker_version", PNone)
        q1 == IF Truthy(as_of) THEN _inject_flashback(query, as_of.text) ELSE query
        filters == _extract_filters(params)
        q2 == IF filters # <<>> THEN _inject_where_clause(q1, filters) ELSE q1
        limit == get(params, "limit", PNone)
        q3 == IF limit.kind # "none" THEN _inject_limit(q2, limit) ELSE q2
    IN  IF query = <<>> THEN <<None>> ELSE q3

\* resolved.query of the bindings tried
QueryInputs ==
    {Words(<<"SELECT", "*", "FROM", "employees">>),
     Words(<<"select", "*", "from", "employees">>),
     Words(<<"SELECT", "*", "FROM", "employees", "WHERE", "active", "=", "1">>),
     Words(<<"SELECT", "*", "FROM", "employees", "ORDER", "BY", "id">>),
     Words(<<"SELECT", "*", "FROM", "employees">>) \o <<";">>,
     Words(<<"SELECT", "*", "FROM", "employees", "FETCH", "FIRST", "5", "ROWS", "ONLY">>),
     Words(<<"SELECT", "1">>),
     <<>>}

Opt(key, values) == {<<>>} \cup {<<Entry(key, v)>> : v \in values}

\* resolved.params of the bindings tried
ParamInputs ==
    {a \o b \o c \o d \o e \o f \o g :
        a \in Opt("as_of", {PStr("2024-01-15 10:30:00"), PStr("12345"), PNone}),
        b \in Opt("moniker_version", {PStr("7")}),
        c \in Opt("dept_id", {PInt("10"), PList(<<>>), PList(<<PInt("1"), PInt("2")>>), PNone}),
        d \in Opt("status", {PStr("ACTIVE"), PList(<<PStr("A"), PStr("B")>>)}),
        e \in Opt("limit", {PInt("100")}),
        f \in Opt("moniker_params",
                  {PDict(<<Entry("region", PStr("EU")), Entry("limit", PInt("5"))>>),
                   PDict(<<Entry("dept_id", PInt("20")), Entry("order_by", PStr("id")),
                           Entry("tags", PList(<<>>))>>),
                   PStr("x")}),
        g \in Opt("options", {PDict(<<Entry("k", PInt("1"))>>)})}

\* query and params are resolved.query and resolved.params, filters the
\* local of that name, out what _build_query returned and again what it
\* returned for out
NoQuery ==
    [pc |-> "none", query |-> <<>>, params |-> <<>>, filters |-> <<>>, out |-> <<>>,
     again |-> <<>>]

\* OracleAdapter.fetch line 75: query = self._build_query(resolved)
BuildQuery ==
    /\ qb.pc = "input"
    /\ qb' = [qb EXCEPT !.pc = "built",
                         !.filters = _extract_filters(qb.params),
                         !.out = _build_query(qb.query, qb.params)]
    /\ UNCHANGED <<cr, au, sh, mono, skew, cache_ttl, _cache, _circuit_breaker, th, hist, rt, config,
                   rd, ora, rest, hc, mk, ld>>

\* _build_query applied to the query it returned, with the same params
RebuildQuery ==
    /\ qb.pc = "built"
    /\ qb.out # <<None>>
    /\ qb' = [qb EXCEPT !.pc = "rebuilt", !.again = _build_query(qb.out, qb.params)]
    /\ UNCHANGED <<cr, au, sh, mono, skew, cache_ttl, _cache, _circuit_breaker, th, hist, rt, config,
                   rd, ora, rest, hc, mk, ld>>

----------------------------------------------------------------------------
(* adapters/rest.py: RestAdapter.fetch and _request_with_retry *)

retry_status_codes == {502, 503, 504}

\* what one client.request(...) gives: a response status, or TimeoutException
\* or ConnectError raised by the transport
Response(status) == [raised |-> "", status_code |-> status]
TransportError(name) == [raised |-> name, status_code |-> 0]

RestReplies ==
    {Response(200), Response(201), Response(404), Response(500), Response(502),
     Response(503),
     TransportError("TimeoutException"), TransportError("ConnectError")}

\* trace lists what the requests issued so far gave, sleeps counts the
\* time.sleep calls, out is what fetch gives its caller
NoRest ==
    [pc |-> "none", base_url |-> TRUE, max_attempts |-> 0, attempt |-> 0, trace |-> <<>>,
     sleeps |-> 0, out |-> NoResult]

\* fetch lines 37-42 and 66, _request_with_retry lines 109-115: without
\* base_url ValueError is raised; range(max_attempts) may be empty, and
\* then line 157 raises RuntimeError
rest_fetch(base_url, max_attempts) ==
    [NoRest EXCEPT !.base_url = base_url,
                   !.max_attempts = max_attempts,
                   !.pc = IF base_url /\ max_attempts > 0 THEN "request" ELSE "done",
                   !.out = IF ~base_url THEN Raised("ValueError", "")
                           ELSE IF max_attempts > 0 THEN NoResult
                           ELSE Raised("RuntimeError", "")]

\* as _request_with_retry, but every error status is tried again
_request_with_retry_any_error(r, reply) ==
    LET more == r.attempt < r.max_attempts - 1
        sent == [r EXCEPT !.trace = Append(@, reply)]
        again == [sent EXCEPT !.attempt = @ + 1, !.sleeps = @ + 1]
        ended(o) == [sent EXCEPT !.pc = "done", !.out = o]
    IN  IF reply.raised = ""
        THEN IF reply.status_code >= 400 /\ more THEN again
             ELSE IF reply.status_code = 404 THEN ended(Raised("NotFoundError", ""))
             ELSE IF reply.status_code >= 400 THEN ended(Raised("HTTPStatusError", ""))
             ELSE ended(Returned("json"))
        ELSE IF more THEN again
             ELSE IF reply.raised = "TimeoutException" THEN ended(Raised("TimeoutError", "TimeoutException"))
             ELSE ended(Raised("ConnectionError", "ConnectError"))

\* one pass of the loop of _request_with_retry (lines 115-152) in which the
\* request gives reply
_request_with_retry(r, reply) ==
    LET more == r.attempt < r.max_attempts - 1
        sent == [r EXCEPT !.trace = Append(@, reply)]
        again == [sent EXCEPT !.attempt = @ + 1, !.sleeps = @ + 1]
        ended(o) == [sent EXCEPT !.pc = "done", !.out = o]
    IN  IF reply.raised = ""
        THEN IF reply.status_code \in retry_status_codes /\ more THEN again
             ELSE IF reply.status_code = 404 THEN ended(Raised("NotFoundError", ""))
             ELSE IF reply.status_code >= 400 THEN ended(Raised("HTTPStatusError", ""))
             ELSE ended(Returned("json"))
        ELSE IF more THEN again
             ELSE IF reply.raised = "TimeoutException" THEN ended(Raised("TimeoutError", "TimeoutException"))
             ELSE ended(Raised("ConnectionError", "ConnectError"))

\* RestAdapter.fetch is called
RestFetch(base_url, max_attempts) ==
    /\ rest.pc \in {"none", "done"}
    /\ rest' = rest_fetch(base_url, max_attempts)
    /\ UNCHANGED <<cr, au, sh, mono, skew, cache_ttl, _cache, _circuit_breaker, th, hist, rt, config,
                   rd, ora, qb, hc, mk, ld>>

\* one request of the loop and what the loop does with its outcome
RestRequest(reply) ==
    /\ rest.pc = "request"
    /\ rest' = _request_with_retry(rest, reply)
    /\ UNCHANGED <<cr, au, sh, mono, skew, cache_ttl, _cache, _circuit_breaker, th, hist, rt, config,
                   rd, ora, qb, hc, mk, ld>>

----------------------------------------------------------------------------
(* adapters/oracle.py and adapters/rest.py: health_check *)

\* the health_check call that ended last: raised names the exception that
\* left it ("" for none), healthy and message are the mapping returned;
\* round_trip (the database or the endpoint answered the check), probe and
\* cause (the driver error caught) are history
NoHealth ==
    [adapter |-> "none", raised |-> "", healthy |-> FALSE, message |-> "",
     round_trip |-> FALSE, probe |-> "none", cause |-> NoError]

Unhealthy(adapter, message) ==
    [NoHealth EXCEPT !.adapter = adapter, !.message = message]

\* as OracleAdapter.health_check, with the connection obtained before the
\* try block as fetch does
oracle_health_check_unguarded(o, installed, user, password, dsn, ping, connect, exec) ==
    IF ~installed
    THEN [ora |-> o, result |-> Unhealthy("oracle", "oracledb package not installed")]
    ELSE IF user = "" \/ password = ""
    THEN [ora |-> o, result |-> Unhealthy("oracle", "Oracle credentials not configured")]
    ELSE IF dsn = ""
    THEN [ora |-> o, result |-> Unhealthy("oracle", "Oracle DSN or host/port/service_name required")]
    ELSE LET g == _get_connection(o, cache_key(user, dsn), ping, connect) IN
         IF g.error # NoError
         THEN [ora |-> g.ora,
               result |-> [Unhealthy("oracle", "") EXCEPT !.raised = "DatabaseError",
                                                          !.probe = g.probe,
                                                          !.cause = g.error]]
         ELSE IF exec # NoError
         THEN [ora |-> g.ora,
               result |-> [Unhealthy("oracle", "str(e)") EXCEPT !.probe = g.probe,
                                                                !.cause = exec]]
         ELSE [ora |-> g.ora,
               result |-> [NoHealth EXCEPT !.adapter = "oracle", !.healthy = TRUE,
                                           !.message = "Connected successfully",
                                           !.round_trip = TRUE, !.probe = g.probe]]

\* OracleAdapter.health_check (lines 337-391): installed tells whether
\* `import oracledb` succeeds, dsn = "" that _build_dsn raises ValueError,
\* exec what cursor(), execute and fetchone do
oracle_health_check(o, installed, user, password, dsn, ping, connect, exec) ==
    IF ~installed
    THEN [ora |-> o, result |-> Unhealthy("oracle", "oracledb package not installed")]
    ELSE IF user = "" \/ password = ""
    THEN [ora |-> o, result |-> Unhealthy("oracle", "Oracle credentials not configured")]
    ELSE IF dsn = ""
    THEN [ora |-> o, result |-> Unhealthy("oracle", "Oracle DSN or host/port/service_name required")]
    ELSE LET g == _get_connection(o, cache_key(user, dsn), ping, connect) IN
         IF g.error # NoError
         THEN [ora |-> g.ora,
               result |-> [Unhealthy("oracle", "str(e)") EXCEPT !.probe = g.probe,
                                                                !.cause = g.error]]
         ELSE IF exec # NoError
         THEN [ora |-> g.ora,
               result |-> [Unhealthy("oracle", "str(e)") EXCEPT !.probe = g.probe,
                                                                !.cause = exec]]
         ELSE [ora |-> g.ora,
               result |-> [NoHealth EXCEPT !.adapter = "oracle", !.healthy = TRUE,
                                           !.message = "Connected successfully",
                                           !.round_trip = TRUE, !.probe = g.probe]]

\* str(e) of the driver errors met by health_check: no listener, timeout
HealthErrors == {<<"ORA-12541">>, <<"ORA-12170">>}

\* what client.get(url) gives in RestAdapter.health_check
HealthReplies ==
    {Response(200), Response(302), Response(404), Response(500), Response(503),
     TransportError("TimeoutException"), TransportError("ConnectError"),
     TransportError("ReadError")}

\* RestAdapter.health_check (lines 282-352)
rest_health_check(base_url, reply) ==
    IF ~base_url THEN Unhealthy("rest", "base_url not configured")
    ELSE IF reply.raised = "TimeoutException" THEN Unhealthy("rest", "Health check timed out")
    ELSE IF reply.raised = "ConnectError" THEN Unhealthy("rest", "Connection failed")
    ELSE IF reply.raised # "" THEN Unhealthy("rest", "str(e)")
    ELSE IF reply.status_code < 400
    THEN [NoHealth EXCEPT !.adapter = "rest", !.healthy = TRUE, !.message = "OK",
                          !.round_trip = TRUE]
    ELSE Unhealthy("rest", "Unhealthy")

OracleHealthCheck(installed, user, password, dsn, ping, connect, exec) ==
    /\ (cache_key(user, dsn) \notin DOMAIN ora._connection_cache \/ ping # "ok")
           => ora.next <= MaxConns
    /\ LET h == oracle_health_check(ora, installed, user, password, dsn, ping, connect, exec)
       IN  ora' = h.ora /\ hc' = h.result
    /\ UNCHANGED <<cr, au, sh, mono, skew, cache_ttl, _cache, _circuit_breaker, th, hist, rt, config,
                   rd, qb, rest, mk, ld>>

RestHealthCheck(base_url, reply) ==
    /\ hc' = rest_health_check(base_url, reply)
    /\ UNCHANGED <<cr, au, sh, mono, skew, cache_ttl, _cache, _circuit_breaker, th, hist, rt, config,
                   rd, ora, qb, rest, mk, ld>>

----------------------------------------------------------------------------
(* client.py: the Moniker value type *)

\* "moniker://" as the word "moniker:" and two separators, so that
\* strip("/") works on it as on any other text
Scheme == <<"moniker:", "/", "/">>

startswith(s, prefix) == Len(s) >= Len(prefix) /\ Before(s, Len(prefix)) = prefix

RECURSIVE lstrip(_, _)
lstrip(s, chars) == IF s # <<>> /\ s[1] \in chars THEN lstrip(Tail(s), chars) ELSE s

\* s.strip(chars)
strip(s, chars) == lstrip(rstrip(s, chars), chars)

\* a Moniker object: id tells the objects apart; none is set for the None
\* that parent() may return
NoObject == [id |-> 0, none |-> TRUE, _path |-> <<>>]

\* Moniker.__init__ (lines 246-262)
Moniker(id, path) ==
    LET path1 == IF startswith(path, Scheme) THEN From(path, Len(Scheme)) ELSE path
    IN  [id |-> id, none |-> FALSE, _path |-> strip(path1, {"/"})]

\* Moniker.child (lines 291-294)
child(self, subpath, id) == Moniker(id, self._path \o <<"/">> \o strip(subpath, {"/"}))

\* the index of the last separator of a path that has one
LastSeparator(s) == CHOOSE i \in 1..Len(s) : s[i] = "/" /\ \A j \in (i + 1)..Len(s) : s[j] # "/"

\* as Moniker.parent, but the last segment is kept
parent_keeps_segment(self, id) ==
    IF \A i \in 1..Len(self._path) : self._path[i] # "/" THEN NoObject
    ELSE Moniker(id, self._path)

\* Moniker.parent (lines 296-301): "/".join(self._path.split("/")[:-1]) is
\* the path up to its last separator
parent(self, id) ==
    IF \A i \in 1..Len(self._path) : self._path[i] # "/" THEN NoObject
    ELSE Moniker(id, Before(self._path, LastSeparator(self._path) - 1))

\* x == y for two Moniker objects: the class (lines 216-369) defines no
\* __eq__, so object.__eq__ compares identities
__eq__(x, y) == x.id = y.id

SeqsUpTo(S, n) == UNION {[1..k -> S] : k \in 0..n}

\* the strings a Moniker is made from: with or without the scheme, with or
\* without leading and trailing separators
PathInputs ==
    {pre \o body : pre \in {<<>>, Scheme, <<"/">> \o Scheme, Scheme \o Scheme},
                   body \in SeqsUpTo({"/", "a"}, MaxLen)}

\* p and s are the strings given; m = Moniker(p), n = Moniker(s),
\* c = m.child(s), par = c.parent(); cmp is the comparison made
NoMonikers ==
    [pc |-> "none", p |-> <<>>, s |-> <<>>, m |-> NoObject, n |-> NoObject,
     c |-> NoObject, par |-> NoObject,
     cmp |-> [left |-> NoObject, right |-> NoObject, equal |-> FALSE]]

MonikerNew ==
    /\ mk.pc = "input"
    /\ mk' = [mk EXCEPT !.pc = "made", !.m = Moniker(1, mk.p), !.n = Moniker(2, mk.s)]
    /\ UNCHANGED <<cr, au, sh, mono, skew, cache_ttl, _cache, _circuit_breaker, th, hist, rt, config,
                   rd, ora, qb, rest, hc, ld>>

MonikerChild ==
    /\ mk.pc = "made"
    /\ mk' = [mk EXCEPT !.pc = "child", !.c = child(mk.m, mk.s, 3)]
    /\ UNCHANGED <<cr, au, sh, mono, skew, cache_ttl, _cache, _circuit_breaker, th, hist, rt, config,
                   rd, ora, qb, rest, hc, ld>>

MonikerParent ==
    /\ mk.pc = "child"
    /\ mk' = [mk EXCEPT !.pc = "parent", !.par = parent(mk.c, 4)]
    /\ UNCHANGED <<cr, au, sh, mono, skew, cache_ttl, _cache, _circuit_breaker, th, hist, rt, config,
                   rd, ora, qb, rest, hc, ld>>

\* x == y, for x and y each one of the objects m and n
MonikerEq(x, y) ==
    /\ mk.pc = "made"
    /\ mk' = [mk EXCEPT !.pc = "compared",
                        !.cmp = [left |-> mk[x], right |-> mk[y],
                                 equal |-> __eq__(mk[x], mk[y])]]
    /\ UNCHANGED <<cr, au, sh, mono, skew, cache_ttl, _cache, _circuit_breaker, th, hist, rt, config,
                   rd, ora, qb, rest, hc, ld>>

----------------------------------------------------------------------------
(* config.py: ClientConfig.load and from_dict *)

\* two of the options: from_dict passes service_url to the constructor
\* (line 153) and leaves deprecation_enabled to its default_factory
Options == {"service_url", "deprecation_enabled"}
FromDictOptions == {"service_url"}

\* dict.update(data): the keys of data replace those of merged
update(merged, data) ==
    [o \in DOMAIN merged \cup DOMAIN data |-> IF o \in DOMAIN data THEN data[o] ELSE merged[o]]

EmptyDict == [o \in {} |-> ""]

\* what a source that sets the options of S holds; the sources are the
\* files ~/.moniker/client.yaml ("user"), .moniker.yaml ("project") and
\* config_file ("explicit") and the MONIKER_* environment variables ("env"),
\* and each value names its source
Holding(source, S) == [o \in S |-> source]

\* os.environ.get(NAME, default), as the default_factory of a field (lines
\* 30-32, 106-108) and the second argument of data.get (line 153) read it
environ_get(env, o) == IF o \in DOMAIN env THEN env[o] ELSE "default"

\* ClientConfig.from_dict (lines 149-172)
from_dict(data, env) ==
    [o \in Options |->
        IF o \in FromDictOptions /\ o \in DOMAIN data THEN data[o] ELSE environ_get(env, o)]

\* ClientConfig.load (lines 182-210): a file that does not exist, or is not
\* given, holds nothing
load(files, env) ==
    from_dict(update(update(update(EmptyDict, files.user), files.project), files.explicit), env)

NoLoad ==
    [pc |-> "none", files |-> [f \in {"user", "project", "explicit"} |-> EmptyDict],
     env |-> EmptyDict, config |-> [o \in Options |-> "default"]]

\* ClientConfig.load(config_file) is called
Load ==
    /\ ld.pc = "sources"
    /\ ld' = [ld EXCEPT !.pc = "loaded", !.config = load(ld.files, ld.env)]
    /\ UNCHANGED <<cr, au, sh, mono, skew, cache_ttl, _cache, _circuit_breaker, th, hist, rt, config,
                   rd, ora, qb, rest, hc, mk>>

----------------------------------------------------------------------------
(* Caller threads sharing one client and one OracleAdapter, statement by   *)
(* statement: _resolve (client.py 936-1012), the breaker methods under     *)
(* their lock (resilience.py 123-162) and _get_connection (oracle.py       *)
(* 274-291)                                                                *)

\* the one key the threads ask a connection for
SharedKey == cache_key("u", "d1")

\* _lock is the thread that holds ClientCircuitBreaker._lock ("" for none);
\* at tells, per thread, the statement it is about to execute, the breaker
\* method it will call, the connection in its local conn, and the exception
\* that ended its last call; leaked are the connections that were opened
\* and are no longer referenced by the cache or by a running call
NoShared ==
    [_lock |-> "",
     at |-> [t \in Threads |-> [pc |-> "idle", method |-> "", conn |-> 0, raised |-> ""]],
     leaked |-> {}]

Goto(t, pc) == [sh EXCEPT !.at[t].pc = pc]

SharedFrame ==
    <<mono, skew, cache_ttl, th, hist, rt, config, rd, qb, rest, hc, mk, ld, cr, au>>

\* read("a") is called: _resolve starts
SharedCall(t) ==
    /\ sh.at[t].pc = "idle"
    /\ sh' = [sh EXCEPT !.at[t] = [pc |-> "cache_test", method |-> "", conn |-> 0,
                                   raised |-> ""]]
    /\ UNCHANGED <<SharedFrame, _cache, _circuit_breaker, ora>>

\* client.py line 939: self.config.cache_ttl > 0 and moniker in self._cache
SharedCacheTest(t) ==
    /\ sh.at[t].pc = "cache_test"
    /\ sh' = IF cache_ttl > 0 /\ _cache["a"] # NoEntry
             THEN Goto(t, "cache_get")
             ELSE [sh EXCEPT !.at[t].pc = "acquire", !.at[t].method = "before_request"]
    /\ UNCHANGED <<SharedFrame, _cache, _circuit_breaker, ora>>

\* client.py lines 940-942: read the entry, compare its age with cache_ttl
SharedCacheGet(t) ==
    /\ sh.at[t].pc = "cache_get"
    /\ sh' = IF cache_lookup(_cache, cache_ttl, "a", wall) # NoEntry
             THEN Goto(t, "conn_test")
             ELSE [sh EXCEPT !.at[t].pc = "acquire", !.at[t].method = "before_request"]
    /\ UNCHANGED <<SharedFrame, _cache, _circuit_breaker, ora>>

\* with self._lock: the lock is taken (resilience.py lines 125, 141, 152)
SharedAcquire(t) ==
    /\ sh.at[t].pc = "acquire"
    /\ sh._lock = ""
    /\ sh' = [sh EXCEPT !._lock = t, !.at[t].pc = "locked"]
    /\ UNCHANGED <<SharedFrame, _cache, _circuit_breaker, ora>>

\* the body of before_request, on_success or on_failure, and the release of
\* the lock at the end of the with block
SharedBreaker(t) ==
    /\ sh.at[t].pc = "locked"
    /\ sh._lock = t
    /\ LET method == sh.at[t].method
           r == before_request(_circuit_breaker, mono)
       IN  CASE method = "before_request" ->
                  /\ _circuit_breaker' = r.cb
                  /\ sh' = [sh EXCEPT !._lock = "",
                                      !.at[t].pc = IF r.raised THEN "idle" ELSE "http",
                                      !.at[t].raised = IF r.raised THEN "ConnectionError"
                                                       ELSE ""]
             [] method = "on_success" ->
                  /\ _circuit_breaker' = on_success(_circuit_breaker)
                  /\ sh' = [sh EXCEPT !._lock = "", !.at[t].pc = "conn_test"]
             [] method = "on_failure" ->
                  /\ _circuit_breaker' = on_failure(_circuit_breaker, mono)
                  /\ sh' = [sh EXCEPT !._lock = "", !.at[t].pc = "idle",
                                      !.at[t].raised = "ResolutionError"]
    /\ UNCHANGED <<SharedFrame, _cache, ora>>

\* client.py line 963: the GET to /resolve/a is answered 200 or 500
SharedHttp(t, status) ==
    /\ sh.at[t].pc = "http"
    /\ sh' = IF status = 200 THEN Goto(t, "cache_store")
             ELSE [sh EXCEPT !.at[t].pc = "acquire", !.at[t].method = "on_failure"]
    /\ UNCHANGED <<SharedFrame, _cache, _circuit_breaker, ora>>

\* client.py lines 1003-1006: the cache write, then on_success is called
SharedCacheStore(t) ==
    /\ sh.at[t].pc = "cache_store"
    /\ _cache' = cache_store(_cache, cache_ttl, "a", "active", wall, mono)
    /\ sh' = [sh EXCEPT !.at[t].pc = "acquire", !.at[t].method = "on_success"]
    /\ UNCHANGED <<SharedFrame, _circuit_breaker, ora>>

\* oracle.py line 278: cache_key in self._connection_cache
SharedConnTest(t) ==
    /\ sh.at[t].pc = "conn_test"
    /\ sh' = IF SharedKey \in DOMAIN ora._connection_cache
             THEN Goto(t, "conn_read") ELSE Goto(t, "conn_connect")
    /\ UNCHANGED <<SharedFrame, _cache, _circuit_breaker, ora>>

\* oracle.py line 279: conn = self._connection_cache[cache_key]; KeyError
\* when another thread has removed the entry since the test
SharedConnRead(t) ==
    /\ sh.at[t].pc = "conn_read"
    /\ sh' = IF SharedKey \in DOMAIN ora._connection_cache
             THEN [sh EXCEPT !.at[t].pc = "conn_ping",
                             !.at[t].conn = ora._connection_cache[SharedKey]]
             ELSE [sh EXCEPT !.at[t].pc = "idle", !.at[t].raised = "KeyError"]
    /\ UNCHANGED <<SharedFrame, _cache, _circuit_breaker, ora>>

\* oracle.py lines 281-284: conn.ping() succeeds and conn is returned, or
\* it raises
SharedConnPing(t, ping) ==
    /\ sh.at[t].pc = "conn_ping"
    /\ sh' = IF ping = "ok" THEN Goto(t, "idle") ELSE Goto(t, "conn_del")
    /\ UNCHANGED <<SharedFrame, _cache, _circuit_breaker, ora>>

\* oracle.py line 286: del self._connection_cache[cache_key]; KeyError when
\* another thread has removed the entry already
SharedConnDel(t) ==
    /\ sh.at[t].pc = "conn_del"
    /\ IF SharedKey \in DOMAIN ora._connection_cache
       THEN /\ ora' = [ora EXCEPT !._connection_cache = Without(@, SharedKey),
                                  !.stale[SharedKey] = @ + 1]
            /\ sh' = [sh EXCEPT !.at[t].pc = "conn_connect", !.at[t].conn = 0]
       ELSE /\ ora' = ora
            /\ sh' = [sh EXCEPT !.at[t].pc = "idle", !.at[t].conn = 0,
                                !.at[t].raised = "KeyError"]
    /\ UNCHANGED <<SharedFrame, _cache, _circuit_breaker>>

\* oracle.py line 289: conn = oracledb.connect(...)
SharedConnect(t) ==
    /\ sh.at[t].pc = "conn_connect"
    /\ ora.next <= MaxConns
    /\ ora' = [ora EXCEPT !.next = @ + 1]
    /\ sh' = [sh EXCEPT !.at[t].pc = "conn_store", !.at[t].conn = ora.next]
    /\ UNCHANGED <<SharedFrame, _cache, _circuit_breaker>>

\* oracle.py lines 290-291: self._connection_cache[cache_key] = conn; the
\* connection another thread stored in the meantime is dropped unclosed
SharedConnStore(t) ==
    /\ sh.at[t].pc = "conn_store"
    /\ ora' = [ora EXCEPT !._connection_cache = (SharedKey :> sh.at[t].conn) @@ @,
                          !.opened[SharedKey] = @ + 1]
    /\ sh' = [sh EXCEPT !.at[t].pc = "idle",
                        !.leaked = @ \cup {ora._connection_cache[k] :
                                             k \in DOMAIN ora._connection_cache \cap {SharedKey}}]
    /\ UNCHANGED <<SharedFrame, _cache, _circuit_breaker>>

----------------------------------------------------------------------------
(* adapters/oracle.py: OracleAdapter.fetch up to the query it executes *)

\* what fetch has got to when it calls cursor.execute, or what it raised
NoFetched == [raised |-> "none", user |-> "", password |-> "", query |-> <<>>]

(* fetch lines 46-84: the credentials come from resolved.params, else from *)
(* the configuration (lines 65-66, get_credential of config.py 135-139);   *)
(* ValueError without them (68-72) or without a query (76-77); query is    *)
(* the text handed to cursor.execute on line 84.                           *)
oracle_fetch_query(query, params, cfg) ==
    LET pu == get(params, "oracle_user", PNone)
        pp == get(params, "oracle_password", PNone)
        user == IF Truthy(pu) THEN pu ELSE cfg.oracle_user
        password == IF Truthy(pp) THEN pp ELSE cfg.oracle_password
        built == _build_query(query, params)
    IN  IF ~Truthy(user) \/ ~Truthy(password)
        THEN [NoFetched EXCEPT !.raised = "ValueError"]
        ELSE IF built = <<None>> \/ built = <<>>
        THEN [NoFetched EXCEPT !.raised = "ValueError"]
        ELSE [raised |-> "", user |-> user.text, password |-> password.text,
              query |-> built]

\* the oracle_user and oracle_password entries of a parameter mapping
CredentialInputs ==
    {<<>>,
     <<Entry("oracle_user", PStr("scott")), Entry("oracle_password", PStr("tiger"))>>,
     <<Entry("oracle_user", PStr("hr")), Entry("oracle_password", PStr("s3cret"))>>}

\* ClientConfig.oracle_user and oracle_password: unset, or set from the environment
CredentialConfigs ==
    {[oracle_user |-> PNone, oracle_password |-> PNone],
     [oracle_user |-> PStr("app"), oracle_password |-> PStr("apppw")]}

\* the other entries of resolved.params, the same in both bindings
SharedParamInputs ==
    {<<>>, <<Entry("dept_id", PInt("10")), Entry("limit", PInt("100"))>>}

SharedQueryInputs ==
    {Words(<<"SELECT", "*", "FROM", "employees">>),
     Words(<<"SELECT", "*", "FROM", "employees", "WHERE", "active", "=", "1">>),
     Words(<<"SELECT", "*", "FROM", "employees", "ORDER", "BY", "id">>)}

Bindings == {"x", "y"}

\* query and params are what the two bindings share, creds the credential
\* entries of each, config the client's configuration and fetched what
\* fetch did for each binding
NoCreds ==
    [pc |-> "none", query |-> <<>>, params |-> <<>>,
     creds |-> [b \in Bindings |-> <<>>],
     config |-> [oracle_user |-> PNone, oracle_password |-> PNone],
     fetched |-> [b \in Bindings |-> NoFetched]]

\* adapter.fetch(resolved, config) for binding b
FetchQuery(b) ==
    /\ cr.pc = "input"
    /\ cr.fetched[b] = NoFetched
    /\ cr' = [cr EXCEPT !.fetched[b] =
                 oracle_fetch_query(cr.query, cr.creds[b] \o cr.params, cr.config)]
    /\ UNCHANGED <<au, sh, mono, skew, cache_ttl, _cache, _circuit_breaker, th, hist, rt,
                   config, rd, ora, qb, rest, hc, mk, ld>>

----------------------------------------------------------------------------
(* auth.py: ClientAuth._get_jwt_headers_cached on the module's one         *)
(* instance _client_auth (line 168), statement by statement                *)

_EMPTY_HEADERS == <<>>

\* {"Authorization": f"Bearer {token}"}
BearerHeaders(token) == <<Entry("Authorization", <<"Bearer", " ", token>>)>>

\* the JWT settings of the configurations that call: an explicit token, a
\* token in the environment variable named, a token file, or none of them
JwtConfigs ==
    {[jwt_token |-> "tokA", env_token |-> None, file_token |-> None],
     [jwt_token |-> None, env_token |-> "tokB", file_token |-> None],
     [jwt_token |-> None, env_token |-> None, file_token |-> "tokA"],
     [jwt_token |-> None, env_token |-> None, file_token |-> None]}

\* _get_jwt_token (lines 144-164)
_get_jwt_token(cfg) ==
    IF cfg.jwt_token # None THEN cfg.jwt_token
    ELSE IF cfg.env_token # None THEN cfg.env_token
    ELSE cfg.file_token

NoJwtConfig == [jwt_token |-> None, env_token |-> None, file_token |-> None]

\* _jwt_cache and _jwt_cache_token are the fields of _client_auth; at tells,
\* per thread, the statement it is about to execute, the configuration it
\* was called with, its local token and the headers it returned
NoAuth ==
    [_jwt_cache |-> _EMPTY_HEADERS,
     _jwt_cache_token |-> None,
     at |-> [t \in Threads |-> [pc |-> "idle", config |-> NoJwtConfig, token |-> None,
                                out |-> _EMPTY_HEADERS]]]

\* get_auth_headers(config) with auth_method = "jwt" (lines 171-173, 55-56)
\* up to lines 111-113: the token is looked up; without one, no header
AuthCall(t, cfg) ==
    /\ au.at[t].pc = "idle"
    /\ LET token == _get_jwt_token(cfg) IN
       au' = [au EXCEPT !.at[t] =
                 [pc |-> IF token = None THEN "done" ELSE "test",
                  config |-> cfg, token |-> token, out |-> _EMPTY_HEADERS]]
    /\ UNCHANGED <<cr, sh, mono, skew, cache_ttl, _cache, _circuit_breaker, th, hist, rt,
                   config, rd, ora, qb, rest, hc, mk, ld>>

\* line 116: if token == self._jwt_cache_token and self._jwt_cache
AuthTest(t) ==
    /\ au.at[t].pc = "test"
    /\ au' = [au EXCEPT !.at[t].pc =
                 IF au.at[t].token = au._jwt_cache_token /\ au._jwt_cache # _EMPTY_HEADERS
                 THEN "return" ELSE "build"]
    /\ UNCHANGED <<cr, sh, mono, skew, cache_ttl, _cache, _circuit_breaker, th, hist, rt,
                   config, rd, ora, qb, rest, hc, mk, ld>>

\* line 120: self._jwt_cache = {"Authorization": f"Bearer {token}"}
AuthBuild(t) ==
    /\ au.at[t].pc = "build"
    /\ au' = [au EXCEPT !._jwt_cache = BearerHeaders(au.at[t].token),
                        !.at[t].pc = "store"]
    /\ UNCHANGED <<cr, sh, mono, skew, cache_ttl, _cache, _circuit_breaker, th, hist, rt,
                   config, rd, ora, qb, rest, hc, mk, ld>>

\* line 121: self._jwt_cache_token = token
AuthStore(t) ==
    /\ au.at[t].pc = "store"
    /\ au' = [au EXCEPT !._jwt_cache_token = au.at[t].token,
                        !.at[t].pc = "return"]
    /\ UNCHANGED <<cr, sh, mono, skew, cache_ttl, _cache, _circuit_breaker, th, hist, rt,
                   config, rd, ora, qb, rest, hc, mk, ld>>

\* lines 117 and 122: return self._jwt_cache
AuthReturn(t) ==
    /\ au.at[t].pc = "return"
    /\ au' = [au EXCEPT !.at[t].pc = "done", !.at[t].out = au._jwt_cache]
    /\ UNCHANGED <<cr, sh, mono, skew, cache_ttl, _cache, _circuit_breaker, th, hist, rt,
                   config, rd, ora, qb, rest, hc, mk, ld>>

\* the caller (_get_headers, client.py 1022-1024) has merged the headers
AuthDone(t) ==
    /\ au.at[t].pc = "done"
    /\ au' = [au EXCEPT !.at[t].pc = "idle"]
    /\ UNCHANGED <<cr, sh, mono, skew, cache_ttl, _cache, _circuit_breaker, th, hist, rt,
                   config, rd, ora, qb, rest, hc, mk, ld>>

----------------------------------------------------------------------------
(* The specifications *)

\* no call made yet on the components that are checked on their own
StandaloneIdle ==
    /\ qb = NoQuery
    /\ rest = NoRest
    /\ hc = NoHealth
    /\ mk = NoMonikers
    /\ ld = NoLoad
    /\ sh = NoShared
    /\ cr = NoCreds
    /\ au = NoAuth

\* a client as constructed (field defaults, lines 388-395) with the given cache_ttl
NewClient(ttl) ==
    /\ mono = 0
    /\ skew = 0
    /\ cache_ttl = ttl
    /\ _cache = [m \in Monikers |-> NoEntry]
    /\ _circuit_breaker = NewBreaker
    /\ th = [t \in Threads |-> IdleThread]
    /\ hist = [streak |-> 0, served |-> {}]
    /\ rt = NoRetry
    /\ config = DefaultConfig
    /\ rd = [t \in Threads |-> NoRead]
    /\ ora = NewOracleAdapter
    /\ StandaloneIdle

(* Spec: one caller, caching disabled (cache_ttl = 0), so that time.time() *)
(* is never read: the breaker, the retry loop and the resolver requests,   *)
(* against a resolver that may answer anything.                            *)
Init == NewClient(0)

Next ==
    \/ \E t \in Callers, m \in Monikers : CallResolve(t, m)
    \/ \E t \in Callers, ms \in BatchArgs : CallBatchResolve(t, ms)
    \/ \E t \in Callers : BeforeRequest(t)
    \/ \E t \in Callers, reply \in ResolveReplies, j \in Jitters : DoResolve(t, reply, j)
    \/ \E t \in Callers : ResolveSleep(t)
    \/ \E t \in Callers : CacheWrite(t)
    \/ \E t \in Callers, reply \in BatchReplies(Monikers) : BatchPost(t, reply)
    \/ \E t \in Callers : BatchStore(t)
    \/ \E t \in Callers : OnSuccess(t)
    \/ \E t \in Callers : OnFailure(t)
    \/ \E t \in Callers : Return(t)
    \/ Tick

Spec == Init /\ [][Next]_vars

(* SpecThreads: two callers share the client and interleave at every step  *)
(* between two lock regions; caching disabled, one moniker, and a resolver *)
(* that answers 200, 404 or 500 (no transport failure, hence no retry).    *)
PlainReplies == {r \in ResolveReplies : r.exc = "" /\ r.status # 503 /\ r.lifecycle # "deprecated"}
PlainBatchReplies == {r \in BatchReplies({"a"}) : r.exc = "" /\ \A m \in DOMAIN r.results : r.results[m] = "active"}

NextThreads ==
    \/ \E t \in Threads : CallResolve(t, "a")
    \/ \E t \in Threads : CallBatchResolve(t, <<"a">>)
    \/ \E t \in Threads : BeforeRequest(t)
    \/ \E t \in Threads, reply \in PlainReplies : DoResolve(t, reply, 0)
    \/ \E t \in Threads : CacheWrite(t)
    \/ \E t \in Threads, reply \in PlainBatchReplies : BatchPost(t, reply)
    \/ \E t \in Threads : BatchStore(t)
    \/ \E t \in Threads : OnSuccess(t)
    \/ \E t \in Threads : OnFailure(t)
    \/ \E t \in Threads : Return(t)
    \/ Tick

SpecThreads == Init /\ [][NextThreads]_vars

(* SpecCache: one caller, caching enabled, a wall clock that may be set    *)
(* back or forward between any two steps, and a resolver that is up (it    *)
(* answers 200 or 404).  The client starts fresh, or with the breaker just *)
(* opened by failure_threshold failed resolves at start-up.                *)
OpenedBreaker == [NewBreaker EXCEPT !._state = OPEN, !._failure_count = failure_threshold]

InitCache ==
    /\ mono = 0
    /\ skew = 0
    /\ cache_ttl = CacheTtl
    /\ _cache = [m \in Monikers |-> NoEntry]
    /\ _circuit_breaker \in {NewBreaker, OpenedBreaker}
    /\ th = [t \in Threads |-> IdleThread]
    /\ hist = [streak |-> 0, served |-> {}]
    /\ rt = NoRetry
    /\ config = DefaultConfig
    /\ rd = [t \in Threads |-> NoRead]
    /\ ora = NewOracleAdapter
    /\ StandaloneIdle

UpReplies == {r \in ResolveReplies : r.status \in {200, 404}}
UpBatchReplies == {r \in BatchReplies(Monikers) : r.status = 200}

NextCache ==
    \/ \E t \in Callers, m \in Monikers : CallResolve(t, m)
    \/ \E t \in Callers, ms \in BatchArgs : CallBatchResolve(t, ms)
    \/ \E t \in Callers : BeforeRequest(t)
    \/ \E t \in Callers, reply \in UpReplies : DoResolve(t, reply, 0)
    \/ \E t \in Callers : CacheWrite(t)
    \/ \E t \in Callers, reply \in UpBatchReplies : BatchPost(t, reply)
    \/ \E t \in Callers : BatchStore(t)
    \/ \E t \in Callers : OnSuccess(t)
    \/ \E t \in Callers : Return(t)
    \/ Tick
    \/ \E d \in {-TickStep, TickStep} : AdjustClock(d)

SpecCache == InitCache /\ [][NextCache]_vars

----------------------------------------------------------------------------
(* retry_with_backoff on its own, for an arbitrary work function *)

WorkOutcomes ==
    {Value(v) : v \in {"v1", "v2"}}
    \cup {Error(n, NoStatus) : n \in {"ResolutionError", "NotFoundError", "ValueError",
                                      "ConnectError", "ConnectionError", "ReadTimeout",
                                      "NetworkError"}}
    \cup {Error("HTTPStatusError", c) : c \in {404, 429, 500, 503}}

\* func(*args, **kwargs) is invoked and the loop body handles its outcome
RetryInvoke(o, jitter) ==
    /\ rt.pc = "call"
    /\ rt' = RetryCall(rt, o, jitter)
    /\ UNCHANGED <<standalone, config, rd, ora, mono, skew, cache_ttl, _cache, _circuit_breaker, th, hist>>

\* the sleep between two attempts ends
RetrySleep ==
    /\ rt.pc = "sleep"
    /\ rt' = RetryWake(rt)
    /\ UNCHANGED <<standalone, config, rd, ora, mono, skew, cache_ttl, _cache, _circuit_breaker, th, hist>>

InitRetry ==
    /\ mono = 0
    /\ skew = 0
    /\ cache_ttl = 0
    /\ _cache = [m \in Monikers |-> NoEntry]
    /\ _circuit_breaker = NewBreaker
    /\ th = [t \in Threads |-> IdleThread]
    /\ hist = [streak |-> 0, served |-> {}]
    /\ rt \in {RetryEnter(n) : n \in (-1)..MaxRetries}
    /\ config = DefaultConfig
    /\ rd = [t \in Threads |-> NoRead]
    /\ ora = NewOracleAdapter
    /\ StandaloneIdle

NextRetry ==
    \/ \E o \in WorkOutcomes, j \in Jitters : RetryInvoke(o, j)
    \/ RetrySleep

SpecRetry == InitRetry /\ [][NextRetry]_vars

----------------------------------------------------------------------------
(* SpecWarn: one caller of resolve and batch_resolve with caching on, for  *)
(* every setting of the deprecation options, and a resolver that is up.    *)
InitWarn ==
    /\ mono = 0
    /\ skew = 0
    /\ cache_ttl = CacheTtl
    /\ _cache = [m \in Monikers |-> NoEntry]
    /\ _circuit_breaker = NewBreaker
    /\ th = [t \in Threads |-> IdleThread]
    /\ hist = [streak |-> 0, served |-> {}]
    /\ rt = NoRetry
    /\ config \in {c \in Configs : c.report_telemetry}
    /\ rd = [t \in Threads |-> NoRead]
    /\ ora = NewOracleAdapter
    /\ StandaloneIdle

NextWarn ==
    \/ \E t \in Callers, m \in Monikers : CallResolve(t, m)
    \/ \E t \in Callers, ms \in BatchArgs : CallBatchResolve(t, ms)
    \/ \E t \in Callers : BeforeRequest(t)
    \/ \E t \in Callers, reply \in UpReplies, j \in Jitters : DoResolve(t, reply, j)
    \/ \E t \in Callers : CacheWrite(t)
    \/ \E t \in Callers, reply \in UpBatchReplies : BatchPost(t, reply)
    \/ \E t \in Callers : BatchStore(t)
    \/ \E t \in Callers : OnSuccess(t)
    \/ \E t \in Callers : Return(t)

SpecWarn == InitWarn /\ [][NextWarn]_vars

(* SpecRead: one caller of read, batch_read and the thin GETs, caching on, *)
(* telemetry on or off, the breaker fresh or just opened, and a resolver   *)
(* that answers 200, 404, 500 or not at all.                               *)
ReadReplies == {r \in ResolveReplies : r.status \in {200, 404, 500} \/ r.exc = "ConnectError"}
ReadBatchReplies == {r \in BatchReplies(Monikers) : r.status \in {200, 500}}

InitRead ==
    /\ mono = 0
    /\ skew = 0
    /\ cache_ttl = CacheTtl
    /\ _cache = [m \in Monikers |-> NoEntry]
    /\ _circuit_breaker \in {NewBreaker, OpenedBreaker}
    /\ th = [t \in Threads |-> IdleThread]
    /\ hist = [streak |-> 0, served |-> {}]
    /\ rt = NoRetry
    /\ config \in {[DefaultConfig EXCEPT !.report_telemetry = b] : b \in BOOLEAN}
    /\ rd = [t \in Threads |-> NoRead]
    /\ ora = NewOracleAdapter
    /\ StandaloneIdle

NextRead ==
    \/ \E t \in Callers, m \in Monikers : CallRead(t, m)
    \/ \E t \in Callers, ms \in BatchArgs : CallBatchRead(t, ms)
    \/ \E t \in Callers, mth \in ThinMethods, reply \in ThinReplies : ThinGet(t, mth, reply)
    \/ \E t \in Callers : BeforeRequest(t)
    \/ \E t \in Callers, reply \in ReadReplies, j \in Jitters : DoResolve(t, reply, j)
    \/ \E t \in Callers : CacheWrite(t)
    \/ \E t \in Callers, reply \in ReadBatchReplies : BatchPost(t, reply)
    \/ \E t \in Callers : BatchStore(t)
    \/ \E t \in Callers : OnSuccess(t)
    \/ \E t \in Callers : OnFailure(t)
    \/ \E t \in Callers : ReadResolved(t)
    \/ \E t \in Callers, o \in AdapterOutcomes : AdapterFetch(t, o)
    \/ \E t \in Callers, reply \in TelemetryReplies : ReadFinally(t, reply)
    \/ \E t \in Callers, outcomes \in BatchOutcomes : BatchReadFetch(t, outcomes)
    \/ \E t \in Callers : ReadReturn(t)

SpecRead == InitRead /\ [][NextRead]_vars

(* SpecOracle: one OracleAdapter used from one thread, against a driver    *)
(* whose connections may go stale and whose calls may fail.                *)
InitOracle ==
    /\ mono = 0
    /\ skew = 0
    /\ cache_ttl = 0
    /\ _cache = [m \in Monikers |-> NoEntry]
    /\ _circuit_breaker = NewBreaker
    /\ th = [t \in Threads |-> IdleThread]
    /\ hist = [streak |-> 0, served |-> {}]
    /\ rt = NoRetry
    /\ config = DefaultConfig
    /\ rd = [t \in Threads |-> NoRead]
    /\ ora = NewOracleAdapter
    /\ StandaloneIdle

NextOracle ==
    \/ \E user \in Users, password \in Passwords, dsn \in Dsns, query \in Queries,
          ping \in {"ok", "fail"}, connect \in {NoError} \cup DriverErrors,
          exec \in {NoError} \cup DriverErrors :
            OracleFetch(user, password, dsn, query, ping, connect, exec)
    \/ \E failing \in SUBSET ConnIds : CloseConnections(failing)

SpecOracle == InitOracle /\ [][NextOracle]_vars

(* SpecFrame: one caller of resolve and batch_resolve, caching on or off,   *)
(* the breaker fresh or just opened, a resolver that may answer anything.  *)
InitFrame ==
    /\ mono = 0
    /\ skew = 0
    /\ cache_ttl \in {0, CacheTtl}
    /\ _cache = [m \in Monikers |-> NoEntry]
    /\ _circuit_breaker \in {NewBreaker, OpenedBreaker}
    /\ th = [t \in Threads |-> IdleThread]
    /\ hist = [streak |-> 0, served |-> {}]
    /\ rt = NoRetry
    /\ config = DefaultConfig
    /\ rd = [t \in Threads |-> NoRead]
    /\ ora = NewOracleAdapter
    /\ StandaloneIdle

NextFrame ==
    \/ \E t \in Callers, m \in Monikers : CallResolve(t, m)
    \/ \E t \in Callers, ms \in BatchArgs : CallBatchResolve(t, ms)
    \/ \E t \in Callers : BeforeRequest(t)
    \/ \E t \in Callers, reply \in ResolveReplies : DoResolve(t, reply, 0)
    \/ \E t \in Callers : ResolveSleep(t)
    \/ \E t \in Callers : CacheWrite(t)
    \/ \E t \in Callers, reply \in BatchReplies(Monikers) : BatchPost(t, reply)
    \/ \E t \in Callers : BatchStore(t)
    \/ \E t \in Callers : OnSuccess(t)
    \/ \E t \in Callers : OnFailure(t)
    \/ \E t \in Callers : Return(t)
    \/ Tick

SpecFrame == InitFrame /\ [][NextFrame]_vars

(* SpecRecover: the breaker has just opened; from then on the resolver      *)
(* answers every GET with 200, two callers keep issuing uncached resolves   *)
(* and time keeps passing.  Each caller thread that can take a step takes   *)
(* one eventually, and so does the clock.                                   *)
InitRecover ==
    /\ mono = 0
    /\ skew = 0
    /\ cache_ttl = 0
    /\ _cache = [m \in Monikers |-> NoEntry]
    /\ _circuit_breaker = OpenedBreaker
    /\ th = [t \in Threads |-> IdleThread]
    /\ hist = [streak |-> 0, served |-> {}]
    /\ rt = NoRetry
    /\ config = DefaultConfig
    /\ rd = [t \in Threads |-> NoRead]
    /\ ora = NewOracleAdapter
    /\ StandaloneIdle

OkReplies == {r \in ResolveReplies : r.status = 200 /\ r.lifecycle = "active"}

\* the steps of caller thread t
ThreadRecover(t) ==
    \/ \E m \in Monikers : CallResolve(t, m)
    \/ BeforeRequest(t)
    \/ \E reply \in OkReplies : DoResolve(t, reply, 0)
    \/ CacheWrite(t)
    \/ OnSuccess(t)
    \/ Return(t)

NextRecover ==
    \/ \E t \in Threads : ThreadRecover(t)
    \/ Tick

SpecRecover ==
    /\ InitRecover
    /\ [][NextRecover]_vars
    /\ \A t \in Threads : WF_vars(ThreadRecover(t))
    /\ WF_vars(Tick)

\* a client, its configuration and an OracleAdapter that nothing has used
ClientUnused ==
    /\ mono = 0
    /\ skew = 0
    /\ cache_ttl = 0
    /\ _cache = [m \in Monikers |-> NoEntry]
    /\ _circuit_breaker = NewBreaker
    /\ th = [t \in Threads |-> IdleThread]
    /\ hist = [streak |-> 0, served |-> {}]
    /\ rt = NoRetry
    /\ config = DefaultConfig
    /\ rd = [t \in Threads |-> NoRead]
    /\ ora = NewOracleAdapter

(* SpecQuery: _build_query applied to the queries and parameter mappings   *)
(* of QueryInputs and ParamInputs, and once more to what it returned.      *)
InitQuery ==
    /\ ClientUnused
    /\ qb \in {[NoQuery EXCEPT !.pc = "input", !.query = q, !.params = p] :
                  q \in QueryInputs, p \in ParamInputs}
    /\ rest = NoRest
    /\ hc = NoHealth
    /\ mk = NoMonikers
    /\ ld = NoLoad
    /\ sh = NoShared
    /\ cr = NoCreds
    /\ au = NoAuth

NextQuery ==
    \/ BuildQuery
    \/ RebuildQuery

SpecQuery == InitQuery /\ [][NextQuery]_vars


(* SpecRest: RestAdapter.fetch, for retry_max_attempts from 0 to           *)
(* MaxAttempts, against an endpoint that answers 200, 404, 500 or 503,     *)
(* or refuses the connection.                                              *)
InitRest ==
    /\ ClientUnused
    /\ qb = NoQuery
    /\ rest = NoRest
    /\ hc = NoHealth
    /\ mk = NoMonikers
    /\ ld = NoLoad
    /\ sh = NoShared
    /\ cr = NoCreds
    /\ au = NoAuth

NextRest ==
    \/ \E base_url \in BOOLEAN, max_attempts \in 0..MaxAttempts :
            RestFetch(base_url, max_attempts)
    \/ \E reply \in RestReplies : RestRequest(reply)

SpecRest == InitRest /\ [][NextRest]_vars

(* SpecHealth: health_check of one OracleAdapter and one RestAdapter, with *)
(* or without driver, credentials, DSN and base_url, against a database    *)
(* and an endpoint that may fail in every way.                             *)
InitHealth ==
    /\ ClientUnused
    /\ qb = NoQuery
    /\ rest = NoRest
    /\ hc = NoHealth
    /\ mk = NoMonikers
    /\ ld = NoLoad
    /\ sh = NoShared
    /\ cr = NoCreds
    /\ au = NoAuth

NextHealth ==
    \/ \E installed \in BOOLEAN, user \in Users, password \in Passwords,
          dsn \in {""} \cup Dsns, ping \in {"ok", "fail"},
          connect \in {NoError} \cup HealthErrors, exec \in {NoError} \cup HealthErrors :
            OracleHealthCheck(installed, user, password, dsn, ping, connect, exec)
    \/ \E base_url \in BOOLEAN, reply \in HealthReplies : RestHealthCheck(base_url, reply)

SpecHealth == InitHealth /\ [][NextHealth]_vars

(* SpecMoniker: Moniker(p), Moniker(s), Moniker(p).child(s).parent() and   *)
(* the comparisons of the first two, for every p and s of PathInputs.      *)
InitMoniker ==
    /\ ClientUnused
    /\ qb = NoQuery
    /\ rest = NoRest
    /\ hc = NoHealth
    /\ mk \in {[NoMonikers EXCEPT !.pc = "input", !.p = p, !.s = s] :
                  p \in PathInputs, s \in PathInputs}
    /\ ld = NoLoad
    /\ sh = NoShared
    /\ cr = NoCreds
    /\ au = NoAuth

NextMoniker ==
    \/ MonikerNew
    \/ MonikerChild
    \/ MonikerParent
    \/ \E x \in {"m", "n"}, y \in {"m", "n"} : MonikerEq(x, y)

SpecMoniker == InitMoniker /\ [][NextMoniker]_vars

(* SpecLoad: ClientConfig.load for every choice of the options that each   *)
(* configuration file and the environment set.                             *)
InitLoad ==
    /\ ClientUnused
    /\ qb = NoQuery
    /\ rest = NoRest
    /\ hc = NoHealth
    /\ mk = NoMonikers
    /\ ld \in {[NoLoad EXCEPT !.pc = "sources",
                              !.files = [user |-> Holding("user", u),
                                         project |-> Holding("project", p),
                                         explicit |-> Holding("explicit", x)],
                              !.env = Holding("env", e)] :
                  u \in SUBSET Options, p \in SUBSET Options, x \in SUBSET Options,
                  e \in SUBSET Options}
    /\ sh = NoShared
    /\ cr = NoCreds
    /\ au = NoAuth

NextLoad ==
    \/ Load

SpecLoad == InitLoad /\ [][NextLoad]_vars

(* SpecShared: two threads call read("a") on one client whose binding is   *)
(* served by one OracleAdapter; caching is on, the resolver answers 200 or *)
(* 500, a cached connection may have gone stale.                           *)
InitShared ==
    /\ mono = 0
    /\ skew = 0
    /\ cache_ttl = CacheTtl
    /\ _cache = [m \in Monikers |-> NoEntry]
    /\ _circuit_breaker = NewBreaker
    /\ th = [t \in Threads |-> IdleThread]
    /\ hist = [streak |-> 0, served |-> {}]
    /\ rt = NoRetry
    /\ config = DefaultConfig
    /\ rd = [t \in Threads |-> NoRead]
    /\ ora = NewOracleAdapter
    /\ qb = NoQuery
    /\ rest = NoRest
    /\ hc = NoHealth
    /\ mk = NoMonikers
    /\ ld = NoLoad
    /\ sh = NoShared
    /\ cr = NoCreds
    /\ au = NoAuth

NextShared ==
    \/ \E t \in Threads : SharedCall(t)
    \/ \E t \in Threads : SharedCacheTest(t)
    \/ \E t \in Threads : SharedCacheGet(t)
    \/ \E t \in Threads : SharedAcquire(t)
    \/ \E t \in Threads : SharedBreaker(t)
    \/ \E t \in Threads, status \in {200, 500} : SharedHttp(t, status)
    \/ \E t \in Threads : SharedCacheStore(t)
    \/ \E t \in Threads : SharedConnTest(t)
    \/ \E t \in Threads : SharedConnRead(t)
    \/ \E t \in Threads, ping \in {"ok", "fail"} : SharedConnPing(t, ping)
    \/ \E t \in Threads : SharedConnDel(t)
    \/ \E t \in Threads : SharedConnect(t)
    \/ \E t \in Threads : SharedConnStore(t)

SpecShared == InitShared /\ [][NextShared]_vars

(* SpecCreds: fetch on two bindings with the same query and parameters and *)
(* any credential entries, under a configuration with or without           *)
(* credentials of its own.                                                 *)
InitCreds ==
    /\ ClientUnused
    /\ qb = NoQuery
    /\ rest = NoRest
    /\ hc = NoHealth
    /\ mk = NoMonikers
    /\ ld = NoLoad
    /\ sh = NoShared
    /\ cr \in {[NoCreds EXCEPT !.pc = "input", !.query = q, !.params = p,
                               !.creds = [x |-> cx, y |-> cy], !.config = c] :
                  q \in SharedQueryInputs, p \in SharedParamInputs,
                  cx \in CredentialInputs, cy \in CredentialInputs,
                  c \in CredentialConfigs}
    /\ au = NoAuth

NextCreds ==
    \/ \E b \in Bindings : FetchQuery(b)

SpecCreds == InitCreds /\ [][NextCreds]_vars

(* SpecAuth: two threads call get_auth_headers with auth_method = jwt, for  *)
(* configurations that resolve to different tokens, to the same one or to  *)
(* none.                                                                   *)
InitAuth ==
    /\ ClientUnused
    /\ StandaloneIdle

NextAuth ==
    \/ \E t \in Threads, cfg \in JwtConfigs : AuthCall(t, cfg)
    \/ \E t \in Threads : AuthTest(t)
    \/ \E t \in Threads : AuthBuild(t)
    \/ \E t \in Threads : AuthStore(t)
    \/ \E t \in Threads : AuthReturn(t)
    \/ \E t \in Threads : AuthDone(t)

SpecAuth == InitAuth /\ [][NextAuth]_vars

----------------------------------------------------------------------------
(* Properties: the circuit breaker in front of the resolver *)

Opened == _circuit_breaker._state = OPEN
CoolingDown == Opened /\ mono - _circuit_breaker._opened_at < recovery_timeout

(* C1: from a Closed breaker with failure-count 0, once failure_threshold  *)
(* resolve calls in a row have ended in a non-404 resolver failure (no     *)
(* success in between) the breaker is Open; the breaker then stays Open    *)
(* until recovery_timeout has elapsed since it opened, and every resolve   *)
(* of an uncached moniker that reaches before_request in that time ends in *)
(* ConnectionError without a GET or POST having been issued.               *)
C1_OpensAndFailsFast ==
    [][ /\ \A t \in Threads :
            (th[t].pc = "on_failure" /\ th'[t].pc = "done" /\ hist'.streak >= failure_threshold)
                => _circuit_breaker'._state = OPEN
        /\ \A t \in Threads :
            (th[t].pc = "before_request" /\ th[t].op = "resolve" /\ th'[t] # th[t] /\ CoolingDown)
                => /\ th'[t].pc = "done"
                   /\ th'[t].result = "ConnectionError"
                   /\ th'[t].gets = 0 /\ th'[t].posts = 0
        /\ (Opened /\ mono' - _circuit_breaker._opened_at < recovery_timeout)
                => /\ _circuit_breaker'._state = OPEN
                   /\ _circuit_breaker'._opened_at >= _circuit_breaker._opened_at
      ]_vars

\* C1 witness: a resolve was refused by the breaker a streak of failures opened
C1_Witness ==
    \E t \in Threads :
        /\ th[t].pc = "done" /\ th[t].op = "resolve" /\ th[t].result = "ConnectionError"
        /\ hist.streak >= failure_threshold
        /\ CoolingDown

(* C2: a 404 received during resolution, in resolve or in batch_resolve,   *)
(* leaves the breaker as it is: from the step that receives the 404 to the *)
(* end of the call, no step of that call changes failure-count or state.   *)
C2_NotFoundNotCounted ==
    [][ \A t \in Threads :
            (th'[t] # th[t] /\ th'[t].got404) => _circuit_breaker' = _circuit_breaker ]_vars

(* C7: while the breaker is Open, before_request raises and changes        *)
(* nothing as long as less than recovery_timeout has elapsed since         *)
(* opened_at; the before_request that finds the breaker Open at or after   *)
(* that time sets it HalfOpen with success-count 0 and admits the request. *)
C7_OpenCoolDown ==
    [][ \A t \in Threads :
            (th[t].pc = "before_request" /\ th'[t] # th[t] /\ Opened)
                => IF mono - _circuit_breaker._opened_at < recovery_timeout
                   THEN /\ th'[t].pc = "done"
                        /\ th'[t].result = "ConnectionError"
                        /\ _circuit_breaker' = _circuit_breaker
                   ELSE /\ _circuit_breaker'._state = HALF_OPEN
                        /\ _circuit_breaker'._success_count = 0
                        /\ th'[t].pc \in {"retry", "post"}
      ]_vars

\* C7 witness: the cool-down has elapsed and a request was admitted as the probe
C7_Witness ==
    /\ _circuit_breaker._state = HALF_OPEN
    /\ _circuit_breaker._success_count = 0
    /\ mono - _circuit_breaker._opened_at >= recovery_timeout
    /\ \E t \in Threads : th[t].pc \in {"retry", "post"}

(* C8: in HalfOpen every on_success adds one to success-count and the      *)
(* breaker becomes Closed, with failure-count 0, exactly when success-     *)
(* count reaches success_threshold, staying HalfOpen before that; one      *)
(* on_failure in HalfOpen sets the breaker Open with opened_at = now.      *)
C8_HalfOpenTransitions ==
    [][ \A t \in Threads :
            (_circuit_breaker._state = HALF_OPEN /\ th'[t] # th[t])
                => /\ (th[t].pc = "on_success")
                        => /\ _circuit_breaker'._success_count = _circuit_breaker._success_count + 1
                           /\ (_circuit_breaker'._state = CLOSED)
                                <=> (_circuit_breaker'._success_count = success_threshold)
                           /\ (_circuit_breaker'._state = CLOSED)
                                => _circuit_breaker'._failure_count = 0
                           /\ (_circuit_breaker'._state # CLOSED)
                                => /\ _circuit_breaker'._state = HALF_OPEN
                                   /\ _circuit_breaker'._failure_count = _circuit_breaker._failure_count
                   /\ (th[t].pc = "on_failure")
                        => /\ _circuit_breaker'._state = OPEN
                           /\ _circuit_breaker'._opened_at = mono
      ]_vars

\* C8 witness: the breaker closed on the success that reached success_threshold
C8_Witness ==
    /\ _circuit_breaker._state = CLOSED
    /\ _circuit_breaker._success_count = success_threshold
    /\ _circuit_breaker._failure_count = 0
    /\ \E t \in Threads : th[t].pc = "done" /\ th[t].result = "ok"

----------------------------------------------------------------------------
(* Properties: the resolution cache *)

(* C3: with cache_ttl > 0, a resolve of m that starts less than cache_ttl   *)
(* seconds after the entry for m was written returns the cached binding at *)
(* once: no GET, no POST, no breaker call.                                 *)
C3_CachedWithinTtl ==
    [][ \A t \in Threads, m \in Monikers :
            ( /\ th[t].pc = "idle" /\ th'[t].op = "resolve" /\ th'[t].args = <<m>>
              /\ cache_ttl > 0
              /\ _cache[m] # NoEntry
              /\ mono - _cache[m].written < cache_ttl )
                => /\ th'[t].pc = "done"
                   /\ th'[t].result = "ok"
                   /\ th'[t].returned = (m :> _cache[m].resolved)
                   /\ th'[t].gets = 0 /\ th'[t].posts = 0
                   /\ _circuit_breaker' = _circuit_breaker
      ]_vars

(* C9 as stated: with cache_ttl = 0 every resolve call issues exactly one  *)
(* GET to /resolve/{path}.                                                 *)
C9_ExactlyOneGet ==
    \A t \in Threads :
        (cache_ttl = 0 /\ th[t].pc = "done" /\ th[t].op = "resolve") => th[t].gets = 1

(* C9 amended: with cache_ttl = 0 nothing is cached and no resolve is      *)
(* answered from the cache; a resolve the breaker refuses issues no GET,   *)
(* every other resolve issues one GET plus one for each retry, at most     *)
(* max_retries + 1.                                                        *)
C9_NeverFromCache ==
    cache_ttl = 0 =>
        /\ \A m \in Monikers : _cache[m] = NoEntry
        /\ \A t \in Threads :
            (th[t].pc = "done" /\ th[t].op = "resolve")
                => /\ ~th[t].hit
                   /\ IF th[t].result = "ConnectionError"
                      THEN th[t].gets = 0
                      ELSE /\ th[t].gets >= 1
                           /\ th[t].gets = th[t].retry.sleeps + 1
                           /\ th[t].gets <= max_retries + 1

\* C9 witness: a resolve of a moniker resolved before got its answer from a new GET
C9_Witness ==
    /\ cache_ttl = 0
    /\ \E t \in Threads :
        /\ th[t].pc = "on_success" /\ th[t].op = "resolve"
        /\ th[t].args[1] \in hist.served
        /\ th[t].gets = 1

(* C10: resolve and batch_resolve return a cached binding only while less  *)
(* than cache_ttl seconds of monotonic time have passed since the entry    *)
(* was written.                                                            *)
C10_OnlyLiveEntries ==
    \A t \in Threads : th[t].hit => th[t].hitAge < cache_ttl

----------------------------------------------------------------------------
(* Properties: retry_with_backoff *)

Last(q) == q[Len(q)]

(* C4: the work function is invoked at most max_retries + 1 times; every   *)
(* invocation but the last one raised (none follows one that returned);    *)
(* and when an invocation returns, retry_with_backoff returns its value.   *)
C4_BoundedInvocations ==
    /\ rt.calls = Len(rt.trace)
    /\ rt.calls <= rt.max_retries + 1
    /\ \A i \in 1..(Len(rt.trace) - 1) : rt.trace[i].kind = "error"
    /\ (rt.trace # <<>> /\ Last(rt.trace).kind = "value")
            => rt.pc = "returned" /\ rt.out = Last(rt.trace)
    /\ rt.pc = "returned" => rt.trace # <<>> /\ rt.out = Last(rt.trace)

\* C4 witness: the value of the third invocation was returned after two failures
C4_Witness ==
    /\ rt.pc = "returned"
    /\ rt.calls = 3
    /\ rt.out.value = "v2"

(* A terminal error: no status code of retryable_status_codes and no       *)
(* connection, timeout or network kind; a retryable one is any other.      *)
TransportKinds == {"ConnectError", "ConnectionError", "ReadTimeout", "NetworkError"}
ClaimTerminal(e) ==
    e.kind = "error" /\ e.status_code \notin {429, 502, 503, 504} /\ e.name \notin TransportKinds
ClaimRetryable(e) ==
    e.kind = "error" /\ (e.status_code \in {429, 502, 503, 504} \/ e.name \in TransportKinds)

(* C5: when all max_retries + 1 invocations failed with a retryable error, *)
(* retry_with_backoff raises RetryExhausted carrying the error of the last *)
(* invocation as last_exception.                                           *)
C5_RetriesExhausted ==
    ( /\ rt.pc = "raised"
      /\ rt.calls >= 1
      /\ rt.calls = rt.max_retries + 1
      /\ \A i \in 1..Len(rt.trace) : ClaimRetryable(rt.trace[i]) )
        => /\ rt.out.name = "RetryExhausted"
           /\ rt.last_exception = Last(rt.trace)

(* C6: an invocation that fails with a terminal error is the last one:     *)
(* retry_with_backoff raises that same error, and it has slept only after  *)
(* the failures before it (once each), never after the terminal one.       *)
C6_TerminalReraised ==
    \A i \in 1..Len(rt.trace) :
        ClaimTerminal(rt.trace[i])
            => /\ i = Len(rt.trace)
               /\ rt.pc = "raised"
               /\ rt.out = rt.trace[i]
               /\ rt.sleeps = i - 1

\* C6 witness: a terminal error on the second invocation, after one retry
C6_Witness ==
    /\ rt.pc = "raised"
    /\ rt.calls = 2
    /\ ClaimTerminal(Last(rt.trace))
    /\ rt.max_retries >= 2

----------------------------------------------------------------------------
(* Properties: read, batch_read and the thin GETs *)

(* C11: with report_telemetry enabled every read has sent exactly one POST *)
(* to /telemetry/access when it ends, however it ends, and none before its *)
(* finally block; with report_telemetry disabled it sends none.            *)
C11_TelemetryOnEveryExit ==
    \A t \in Threads :
        rd[t].op = "read"
            => Len(rd[t].telemetry) =
                  (IF rd[t].pc = "done" /\ config.report_telemetry THEN 1 ELSE 0)

\* C11 witness: a read the open breaker refused has reported its one record
C11_Witness ==
    \E t \in Threads :
        /\ rd[t].op = "read" /\ rd[t].pc = "done"
        /\ th[t].result = "ConnectionError" /\ th[t].gets = 0
        /\ rd[t].out.kind = "error"
        /\ Len(rd[t].telemetry) = 1

(* C12: the finally block of read leaves what read gives its caller (the   *)
(* data or the error), the cache and the breaker as they were, whether the *)
(* telemetry POST succeeds, times out, fails to connect or is answered     *)
(* with an error status.                                                   *)
C12_TelemetryBestEffort ==
    [][ \A t \in Threads :
            (rd[t].pc = "finally" /\ rd'[t].pc = "done")
                => /\ rd'[t].out = rd[t].out
                   /\ _cache' = _cache
                   /\ _circuit_breaker' = _circuit_breaker
      ]_vars

\* C12 witness: read returned its data although the telemetry POST failed
C12_Witness ==
    \E t \in Threads :
        /\ rd[t].op = "read" /\ rd[t].pc = "done"
        /\ rd[t].telemetry_failed
        /\ rd[t].out.kind = "value"

(* C13: in the telemetry record of a read, outcome is success iff read     *)
(* returns data, not_found iff it raises NotFoundError, error iff it       *)
(* raises anything else; error_message is set only with error; row_count   *)
(* is set exactly when the data returned is a list or a mapping, to its    *)
(* length.                                                                 *)
C13_OutcomeTag ==
    \A t \in Threads :
        (rd[t].op = "read" /\ rd[t].pc = "done" /\ rd[t].telemetry # <<>>)
            => LET rec == rd[t].telemetry[1]
                   out == rd[t].out
               IN /\ rec.outcome \in {"success", "not_found", "error"}
                  /\ (rec.outcome = "success") <=> (out.kind = "value")
                  /\ (rec.outcome = "not_found")
                        <=> (out.kind = "error" /\ out.name = "NotFoundError")
                  /\ (rec.outcome = "error")
                        <=> (out.kind = "error" /\ out.name # "NotFoundError")
                  /\ (rec.error_message # None) => (rec.outcome = "error")
                  /\ (rec.row_count # <<>>)
                        <=> (out.kind = "value" /\ out.data[1].type \in {"list", "dict"})
                  /\ (rec.row_count # <<>>) => (rec.row_count = <<out.data[1].len>>)

\* C13 witness: a read that returned a list of two rows from the rest source
C13_Witness ==
    \E t \in Threads :
        /\ rd[t].op = "read" /\ rd[t].pc = "done" /\ rd[t].telemetry # <<>>
        /\ rd[t].telemetry[1].outcome = "success"
        /\ rd[t].telemetry[1].row_count = <<2>>
        /\ rd[t].telemetry[1].source_type = "rest"

(* C15: batch_read never raises: it returns a mapping that carries, for    *)
(* every moniker asked, the data or the failure.                           *)
C15_BatchReadNeverRaises ==
    \A t \in Threads :
        (rd[t].op = "batch_read" /\ rd[t].pc = "done")
            => /\ rd[t].out.kind = "value"
               /\ Range(th[t].args) \subseteq DOMAIN rd[t].results

(* C16: read raises FetchError only for a failure of the adapter fetch     *)
(* after a successful resolution; a failed resolution surfaces from read   *)
(* as the error _resolve raised (NotFoundError, ResolutionError, the       *)
(* breaker's ConnectionError, the transport's error).                      *)
C16_FetchErrorOnlyFromAdapter ==
    \A t \in Threads :
        (rd[t].op = "read" /\ rd[t].pc = "done" /\ rd[t].out.kind = "error")
            => /\ (rd[t].out.name = "FetchError") => (rd[t].resolved /\ rd[t].in_fetch)
               /\ ~rd[t].resolved => rd[t].out.name = th[t].result

(* C17: describe, metadata, sample, lineage, list_children, tree, search,  *)
(* catalog_stats, schema and fetch raise NotFoundError when the endpoint   *)
(* answers 404.                                                            *)
C17_NotFoundFromEveryEndpoint ==
    \A t \in Threads :
        (rd[t].op \in ThinMethods /\ rd[t].pc = "done" /\ rd[t].status = 404)
            => (rd[t].out.kind = "error" /\ rd[t].out.name = "NotFoundError")

----------------------------------------------------------------------------
(* Properties: deprecation warnings *)

\* the entries of a sequence of warnings that are about path m
About(q, m) == SelectSeq(q, LAMBDA w : w.path = m)
CallbacksFor(q, m) == SelectSeq(q, LAMBDA c : c[1] = m)

Ended(t) ==
    /\ th[t].op \in {"resolve", "batch_resolve"}
    /\ th[t].pc = "done"
    /\ th[t].result = "ok"

(* C14 as stated: with warn_on_deprecated true, a resolve or batch_resolve *)
(* call that returns a deprecated binding has emitted exactly one warning  *)
(* for it and, when a callback is configured, invoked it exactly once.     *)
C14_OneWarningPerCall ==
    \A t \in Threads, m \in Monikers :
        ( /\ Ended(t)
          /\ config.warn_on_deprecated
          /\ m \in DOMAIN th[t].returned
          /\ th[t].returned[m] = "deprecated" )
            => /\ Len(About(th[t].notices.warnings, m)) = 1
               /\ config.deprecation_callback
                    => Len(CallbacksFor(th[t].notices.callbacks, m)) = 1

(* C14 amended: a call emits, for each binding, one warning and one WARN   *)
(* log record and invokes the configured callback once, with (path,        *)
(* deprecation message, successor), exactly when deprecation_enabled and   *)
(* warn_on_deprecated are true and the call received the binding from the  *)
(* resolver with status deprecated; otherwise (a setting is false, the     *)
(* binding is not deprecated, or it came from the cache) it emits nothing  *)
(* for it.                                                                 *)
C14_WarningsGated ==
    \A t \in Threads, m \in Monikers :
        LET due == /\ config.deprecation_enabled
                   /\ config.warn_on_deprecated
                   /\ th[t].pc \in {"on_success", "done"}
                   /\ m \in DOMAIN th[t].data
                   /\ th[t].data[m] = "deprecated"
            n == th[t].notices
        IN /\ Len(About(n.warnings, m)) = (IF due THEN 1 ELSE 0)
           /\ Len(About(n.logged, m)) = (IF due THEN 1 ELSE 0)
           /\ Len(CallbacksFor(n.callbacks, m))
                = (IF due /\ config.deprecation_callback THEN 1 ELSE 0)
           /\ \A i \in 1..Len(n.callbacks) :
                n.callbacks[i][1] = m
                    => n.callbacks[i] = <<m, DeprecationNotes[m].deprecation_message,
                                          DeprecationNotes[m].successor>>

(* C14 witness: a batch_resolve that took deprecated "a" from the cache    *)
(* and deprecated "b" from the resolver warned once, about "b".            *)
C14_Witness ==
    \E t \in Threads :
        /\ Ended(t) /\ th[t].op = "batch_resolve"
        /\ config.deprecation_enabled /\ config.warn_on_deprecated
        /\ th[t].returned = [m \in {"a", "b"} |-> "deprecated"]
        /\ DOMAIN th[t].data = {"b"}
        /\ Len(th[t].notices.warnings) = 1
        /\ th[t].notices.callbacks = << <<"b", None, "b2">> >>

----------------------------------------------------------------------------
(* Properties: OracleAdapter *)

Conns(cache) == {cache[k] : k \in DOMAIN cache}

(* C18: a fetch reuses a cached connection only after a successful probe,  *)
(* and then opens nothing and leaves the cache as it is; after a failed    *)
(* probe it removes the entry, calls connect once and, when that succeeds, *)
(* caches the new connection under the same key; so a key has had at most  *)
(* one connection opened, plus one for each failed probe or cleared entry. *)
C18_ProbeBeforeReuse ==
    [][ LET l == ora'.last
            k == l.key
            cache == ora._connection_cache
        IN (l.op = "fetch" /\ ora' # ora)
            => /\ (l.conn # 0 /\ l.conn \in Conns(cache))
                    => (l.probe = "ok" /\ k \in DOMAIN cache /\ l.conn = cache[k])
               /\ (l.probe = "ok")
                    => /\ l.connects = 0
                       /\ l.conn = cache[k]
                       /\ ora'._connection_cache = cache
                       /\ ora'.next = ora.next
               /\ (l.probe = "failed")
                    => /\ k \in DOMAIN cache
                       /\ l.connects = 1
                       /\ IF l.phase = "connect"
                          THEN /\ ora'._connection_cache = Without(cache, k)
                               /\ ora'.next = ora.next
                          ELSE /\ l.conn = ora.next
                               /\ l.conn \notin Conns(cache)
                               /\ ora'._connection_cache = (k :> l.conn) @@ Without(cache, k)
                               /\ ora'.next = ora.next + 1
               /\ \A key \in Keys :
                    ora'.opened[key] <= 1 + ora'.stale[key] + ora'.cleared[key]
      ]_vars

\* C18 witness: the probe of connection 1 failed and connection 2 took its place
C18_Witness ==
    /\ ora.last.op = "fetch"
    /\ ora.last.probe = "failed"
    /\ ora.last.connects = 1
    /\ ora.last.conn = 2
    /\ ora.last.key \in DOMAIN ora._connection_cache
    /\ ora._connection_cache[ora.last.key] = 2
    /\ ora.opened[ora.last.key] = 2

(* C19: close_connections calls close() once on every cached connection,   *)
(* raises nothing and leaves the cache empty, also when close() raises for *)
(* some of them; a second call right after closes nothing, raises nothing  *)
(* and leaves the cache empty.                                             *)
C19_CloseConnections ==
    [][ (ora'.last.op = "close" /\ ora' # ora)
            => /\ ora'.last.raised = ""
               /\ ora'._connection_cache = EmptyCache
               /\ ora'.last.closed = Conns(ora._connection_cache)
               /\ \A c \in ConnIds :
                    ora'.closes[c] = ora.closes[c]
                                     + (IF c \in Conns(ora._connection_cache) THEN 1 ELSE 0)
               /\ (ora.last.op = "close")
                    => (ora'.closes = ora.closes /\ ora'.last.closed = {})
      ]_vars

\* C19 witness: two connections were closed, close() raised for one, the cache is empty
C19_Witness ==
    /\ ora.last.op = "close"
    /\ Cardinality(ora.last.closed) = 2
    /\ Cardinality(ora.last.swallowed) = 1
    /\ ora._connection_cache = EmptyCache
    /\ \A c \in ora.last.closed : ora.closes[c] = 1

\* the error kind documented for each well-known code
WellKnown ==
    [ c \in {"ORA-12541", "ORA-01017", "ORA-12170", "ORA-00942"} |->
        CASE c = "ORA-12541" -> "ConnectionError"
          [] c = "ORA-01017" -> "PermissionError"
          [] c = "ORA-12170" -> "TimeoutError"
          [] c = "ORA-00942" -> "ValueError" ]

(* C20: a fetch that ends in a driver error, raised while connecting or    *)
(* while executing, raises the kind documented for the well-known code the *)
(* error carries, and the driver's error itself when it carries none.      *)
C20_DriverErrorsTranslated ==
    (ora.last.op = "fetch" /\ Len(ora.last.cause) = 1)
        => ora.last.raised = (IF ora.last.cause[1] \in DOMAIN WellKnown
                              THEN WellKnown[ora.last.cause[1]] ELSE "DatabaseError")

----------------------------------------------------------------------------
(* Properties: query rewriting of the OracleAdapter *)

MarkerWords == {"WHERE", "GROUP", "ORDER", "HAVING", "UNION", ";", "FETCH"}

\* 'SELECT ... FROM <table>' and nothing after the table
PlainSelect(query) ==
    /\ find(upper(query), <<" ", "FROM", " ">>, 0) # -1
    /\ \A i \in 1..Len(query) : Upper(query[i]) \notin MarkerWords

ClaimReserved ==
    {"moniker_version", "moniker_revision", "as_of", "limit", "offset", "order_by",
     "method", "response_path", "query_params", "moniker_params"}

NotReserved(e) == e.key \notin ClaimReserved

ClaimAsOf(v) ==
    IF isdigit(v) THEN Words(<<"AS", "OF", "SCN", v>>)
    ELSE Words(<<"AS", "OF", "TIMESTAMP">>)
             \o <<" ", "TO_TIMESTAMP", "(", "'", v, "'", ",", " ", "'",
                  "YYYY-MM-DD HH24:MI:SS", "'", ")">>

ClaimScalar(e) ==
    IF e.value.kind = "str" THEN <<e.key, " ", "=", " ", "'", e.value.text, "'">>
    ELSE <<e.key, " ", "=", " ", e.value.text>>

\* a query of the plain shape, an as_of value, scalar filters only, a limit
AllFeatures ==
    /\ PlainSelect(qb.query)
    /\ get(qb.params, "as_of", PNone).kind = "str"
    /\ "moniker_params" \notin KeysOf(qb.params)
    /\ SelectSeq(qb.params, NotReserved) # <<>>
    /\ \A i \in 1..Len(qb.params) :
           NotReserved(qb.params[i]) => qb.params[i].value.kind \in {"str", "int"}
    /\ get(qb.params, "limit", PNone).kind = "int"

(* C21: for a query 'SELECT ... FROM <table>' with nothing after the table, *)
(* an as_of value, scalar filters (keys and values free of SQL keywords)    *)
(* and a limit n, _build_query returns the query followed by the AS OF      *)
(* clause (AS OF SCN for a numeric as_of, AS OF TIMESTAMP TO_TIMESTAMP(...) *)
(* otherwise), then ' WHERE ' and the conditions joined by ' AND ', then    *)
(* ' FETCH FIRST n ROWS ONLY'.                                              *)
C21_TemporalFilterLimit ==
    (qb.pc = "built" /\ AllFeatures) =>
        LET scalars == SelectSeq(qb.params, NotReserved) IN
        qb.out = qb.query
                 \o <<" ">> \o ClaimAsOf(get(qb.params, "as_of", PNone).text)
                 \o <<" ", "WHERE", " ">>
                 \o join(<<" ", "AND", " ">>,
                         [i \in 1..Len(scalars) |-> ClaimScalar(scalars[i])])
                 \o <<" ">>
                 \o Words(<<"FETCH", "FIRST", get(qb.params, "limit", PNone).text,
                            "ROWS", "ONLY">>)

(* C21 witness: the query SELECT * FROM employees with as_of a timestamp,   *)
(* dept_id = 10 and limit 100 has been rewritten.                           *)
C21_Witness ==
    /\ qb.pc = "built"
    /\ AllFeatures
    /\ qb.query = Words(<<"SELECT", "*", "FROM", "employees">>)
    /\ qb.params = <<Entry("as_of", PStr("2024-01-15 10:30:00")),
                     Entry("dept_id", PInt("10")), Entry("limit", PInt("100"))>>
    /\ qb.out = <<"SELECT", " ", "*", " ", "FROM", " ", "employees", " ", "AS", " ",
                  "OF", " ", "TIMESTAMP", " ", "TO_TIMESTAMP", "(", "'",
                  "2024-01-15 10:30:00", "'", ",", " ", "'", "YYYY-MM-DD HH24:MI:SS",
                  "'", ")", " ", "WHERE", " ", "dept_id", " ", "=", " ", "10", " ",
                  "FETCH", " ", "FIRST", " ", "100", " ", "ROWS", " ", "ONLY">>

\* a string without its blanks
Squeeze(s) == SelectSeq(s, LAMBDA tok : tok # " ")

(* C22: _build_query applied to the query it returned, with the same        *)
(* parameters, returns that query again, blanks aside.                      *)
C22_RewritingIdempotent ==
    qb.pc = "rebuilt" => Squeeze(qb.again) = Squeeze(qb.out)

EmptySequence(v) == v.kind = "list" /\ v.elems = <<>>

Occurrences(s, tok) == Cardinality({i \in 1..Len(s) : Upper(s[i]) = tok})

(* C23: a filter whose value is an empty sequence is dropped: the query     *)
(* returned has no 'IN ()' and no condition on that key, and when every     *)
(* filter is an empty sequence it has no WHERE that the input did not have. *)
C23_EmptySequenceDropped ==
    (qb.pc = "built" /\ qb.out # <<None>>) =>
        /\ find(qb.out, <<"IN", " ", "(", ")">>, 0) = -1
        /\ \A i \in 1..Len(qb.filters) :
               EmptySequence(qb.filters[i].value) =>
                   find(qb.out, <<qb.filters[i].key, " ", "IN">>, 0) = -1
        /\ (\A i \in 1..Len(qb.filters) : EmptySequence(qb.filters[i].value)) =>
               Occurrences(qb.out, "WHERE") = Occurrences(qb.query, "WHERE")

\* the parameters nested in moniker_params, when that is a mapping
Nested(params) ==
    LET mp == get(params, "moniker_params", PNone)
    IN  IF mp.kind = "dict" THEN mp.items ELSE <<>>

HasCondition(s, key) ==
    \/ find(s, <<key, " ", "=", " ">>, 0) # -1
    \/ find(s, <<key, " ", "IN", " ">>, 0) # -1

(* C24: no reserved key is a filter or gets a condition in the query,       *)
(* whether it stands at the top level or inside moniker_params, and every   *)
(* other key whose value is a scalar or a sequence is a filter and gets a   *)
(* condition.                                                               *)
C24_ReservedNeverFilters ==
    (qb.pc = "built" /\ qb.out # <<None>>) =>
        /\ KeysOf(qb.filters) \cap ClaimReserved = {}
        /\ \A key \in ClaimReserved : ~HasCondition(qb.out, key)
        /\ \A entries \in {qb.params, Nested(qb.params)} :
               \A i \in 1..Len(entries) :
                   (NotReserved(entries[i])
                        /\ entries[i].value.kind \in {"str", "int", "list"}) =>
                       /\ entries[i].key \in KeysOf(qb.filters)
                       /\ HasCondition(qb.out, entries[i].key)

(* C24 witness: limit stands at the top level and inside moniker_params     *)
(* next to region, and region alone of the three is a filter.               *)
C24_Witness ==
    /\ qb.pc = "built"
    /\ qb.out # <<None>>
    /\ "limit" \in KeysOf(qb.params) \cap KeysOf(Nested(qb.params))
    /\ "region" \in KeysOf(Nested(qb.params))
    /\ KeysOf(qb.filters) = {"region"}
    /\ HasCondition(qb.out, "region")

----------------------------------------------------------------------------
(* Properties: RestAdapter *)

ClaimTransient(reply) ==
    \/ reply.raised \in {"TimeoutException", "ConnectError"}
    \/ reply.raised = "" /\ reply.status_code \in {502, 503, 504}

(* C25: RestAdapter.fetch issues at most retry_max_attempts requests; each  *)
(* request but the last one got a status of retry_status_codes, a timeout   *)
(* or a connect failure; the first other outcome ends the call, a 2xx by    *)
(* returning the body and a 404 by raising NotFoundError; so 503 followed   *)
(* by 200 returns the body after exactly 2 requests.                        *)
C25_BoundedRestRequests ==
    LET n == Len(rest.trace) IN
    /\ n <= rest.max_attempts
    /\ \A i \in 1..(n - 1) : ClaimTransient(rest.trace[i])
    /\ rest.sleeps = (IF rest.pc = "request" THEN n ELSE IF n = 0 THEN 0 ELSE n - 1)
    /\ (rest.pc = "request" /\ n > 0) => ClaimTransient(rest.trace[n])
    /\ (rest.pc = "done" /\ n > 0) =>
           /\ ~ClaimTransient(rest.trace[n]) \/ n = rest.max_attempts
           /\ (rest.trace[n].raised = "" /\ rest.trace[n].status_code < 300) =>
                  rest.out = Returned("json")
           /\ (rest.trace[n].raised = "" /\ rest.trace[n].status_code = 404) =>
                  rest.out.name = "NotFoundError"
           /\ rest.out.kind = "value" =>
                  rest.trace[n].raised = "" /\ rest.trace[n].status_code < 400
    /\ (rest.pc = "done" /\ rest.trace = <<Response(503), Response(200)>>) =>
           rest.out = Returned("json")

(* C25 witness: with retry_max_attempts 3 the endpoint answered 503, then   *)
(* 200, and fetch returned the body after two requests and one sleep.       *)
C25_Witness ==
    /\ rest.pc = "done"
    /\ rest.max_attempts = 3
    /\ rest.trace = <<Response(503), Response(200)>>
    /\ rest.sleeps = 1
    /\ rest.out = Returned("json")

----------------------------------------------------------------------------
(* Properties: health_check *)

----------------------------------------------------------------------------
(* Properties: the Moniker value type *)

(* C27 as stated: for every p and every non-empty s,                        *)
(* Moniker(p).child(s).parent() is a Moniker whose path is Moniker(p).path. *)
C27_ChildThenParent ==
    (mk.pc = "parent" /\ mk.s # <<>>) => (~mk.par.none /\ mk.par._path = mk.m._path)

\* s names one segment: separators at its ends aside, it is not empty and
\* has no separator
OneSegment(s) ==
    LET seg == strip(s, {"/"}) IN seg # <<>> /\ \A i \in 1..Len(seg) : seg[i] # "/"

(* C27 amended: when Moniker(p).path is not empty and does not itself begin *)
(* with moniker://, and s names exactly one segment, then                   *)
(* Moniker(p).child(s).parent() is a Moniker whose path is Moniker(p).path. *)
C27_OneSegmentChildThenParent ==
    (mk.pc = "parent" /\ OneSegment(mk.s) /\ mk.m._path # <<>>
         /\ ~startswith(mk.m._path, Scheme)) =>
        (~mk.par.none /\ mk.par._path = mk.m._path)

(* C27 witness: p = moniker://a/a, s = /a/ gave the child a/a/a and its     *)
(* parent a/a.                                                              *)
C27_Witness ==
    /\ mk.pc = "parent"
    /\ mk.p = Scheme \o <<"a", "/", "a">>
    /\ mk.s = <<"/", "a", "/">>
    /\ mk.c._path = <<"a", "/", "a", "/", "a">>
    /\ mk.par._path = <<"a", "/", "a">>

(* C28: two Moniker values compare equal if and only if their normalized    *)
(* paths are equal.                                                         *)
C28_EqualIffSamePath ==
    mk.pc = "compared" => (mk.cmp.equal <=> mk.cmp.left._path = mk.cmp.right._path)

----------------------------------------------------------------------------
(* Properties: configuration precedence *)

\* the value an option takes under defaults < user-level file <
\* project-level file < explicit file < environment variables
ByPrecedence(o) ==
    IF o \in DOMAIN ld.env THEN ld.env[o]
    ELSE IF o \in DOMAIN ld.files.explicit THEN ld.files.explicit[o]
    ELSE IF o \in DOMAIN ld.files.project THEN ld.files.project[o]
    ELSE IF o \in DOMAIN ld.files.user THEN ld.files.user[o]
    ELSE "default"

(* C29: the configuration loaded gives every option the value of the        *)
(* highest source that sets it, in the order defaults, user-level file,     *)
(* project-level file, explicit file, environment variables: an environment *)
(* variable overrides the value of the same option in any file.             *)
C29_EnvironmentOverridesFiles ==
    ld.pc = "loaded" => \A o \in Options : ld.config[o] = ByPrecedence(o)

----------------------------------------------------------------------------
(* Properties: threads sharing the client and the adapter *)

\* the statements that make up a check-and-update of each component: the
\* cache test of _resolve once begun, a breaker method, _get_connection
\* once begun
Inside(t, component) ==
    CASE component = "cache" -> sh.at[t].pc = "cache_get"
      [] component = "breaker" -> sh.at[t].pc = "locked"
      [] component = "connections" ->
            sh.at[t].pc \in {"conn_read", "conn_ping", "conn_del", "conn_connect",
                             "conn_store"}

(* C30: at any time at most one thread is executing the check-and-update    *)
(* statements of the resolution cache, at most one those of the breaker and *)
(* at most one those of the adapter's connection cache; and no thread meets *)
(* an entry that another thread removed under it.                           *)
C30_ComponentsSerialized ==
    /\ \A component \in {"cache", "breaker", "connections"} :
           \A t, u \in Threads :
               (Inside(t, component) /\ Inside(u, component)) => t = u
    /\ \A t \in Threads : sh.at[t].raised # "KeyError"

----------------------------------------------------------------------------
(* Properties: the order of events within one read *)

(* C31: within one read, a cache hit is followed by no breaker check and   *)
(* no resolver GET; otherwise the breaker check has passed before any GET  *)
(* is sent and the cache is written only after a GET was answered with     *)
(* success; the adapter fetch starts only once _resolve has returned the   *)
(* binding; and the telemetry POST is sent only after the adapter fetch    *)
(* has finished or the read has failed.                                    *)
C31_ReadOrder ==
    [][ \A t \in Callers :
            (rd[t].op = "read" /\ rd[t].pc # "done")
                => /\ th[t].hit
                        => /\ th'[t] = th[t]
                           /\ th[t].gets = 0
                           /\ _circuit_breaker' = _circuit_breaker
                   /\ (th'[t].pc = "retry" /\ th[t].pc # "retry")
                        => /\ th[t].pc = "before_request"
                           /\ ~before_request(_circuit_breaker, mono).raised
                   /\ th'[t].gets > th[t].gets => th[t].pc = "retry"
                   /\ _cache' # _cache
                        => /\ th[t].pc = "cache_write"
                           /\ th[t].retry.pc = "returned"
                           /\ th[t].retry.trace[th[t].gets].kind = "value"
                   /\ (rd'[t].pc = "fetch" /\ rd[t].pc # "fetch")
                        => /\ th[t].pc = "done" /\ th[t].result = "ok"
                           /\ rd[t].moniker \in DOMAIN th[t].returned
                   /\ rd'[t].telemetry # rd[t].telemetry
                        => /\ th[t].pc = "done"
                           /\ \/ rd[t].resolved /\ rd[t].out.kind = "value"
                              \/ rd[t].out.kind = "error"
      ]_vars

(* C31 witness: a read that missed the cache has passed the breaker, sent  *)
(* a GET, written the cache, fetched from the adapter and reported         *)
(* telemetry.                                                              *)
C31_Witness ==
    \E t \in Callers :
        /\ rd[t].op = "read" /\ rd[t].pc = "done"
        /\ ~th[t].hit /\ th[t].gets >= 1
        /\ _cache[rd[t].moniker] # NoEntry
        /\ rd[t].out.kind = "value"
        /\ Len(rd[t].telemetry) = 1

----------------------------------------------------------------------------
(* Properties: the breaker under concurrent callers *)

(* C32: while the breaker is Open, a caller's on_success or on_failure     *)
(* leaves it Open and leaves opened_at where it was, so that a request     *)
(* admitted before the breaker opened and completing afterwards neither    *)
(* lengthens nor shortens the cool-down.                                   *)
C32_OpenIgnoresOutcomes ==
    [][ \A t \in Threads :
            ( /\ _circuit_breaker._state = OPEN
              /\ th[t].pc \in {"on_success", "on_failure"}
              /\ th'[t].pc = "done" )
                => /\ _circuit_breaker'._state = OPEN
                   /\ _circuit_breaker'._opened_at = _circuit_breaker._opened_at
      ]_vars

----------------------------------------------------------------------------
(* Properties: retry inside resolve *)

(* C33: during resolve, a GET to /resolve/{path} that is answered with a   *)
(* status of retryable_status_codes is followed by a sleep and another     *)
(* GET, as long as fewer than max_retries retries have been made.          *)
C33_RetryableStatusRetried ==
    [][ \A t \in Callers, reply \in ResolveReplies, j \in Jitters :
            ( /\ reply.status \in retryable_status_codes
              /\ th[t].retry.attempt < th[t].retry.max_retries
              /\ DoResolve(t, reply, j) )
                => th'[t].retry.pc = "sleep"
      ]_vars

----------------------------------------------------------------------------
(* Properties: the connection cache under concurrent calls *)

(* C34: under any interleaving of calls that ask one OracleAdapter for a   *)
(* connection under the same cache key, no call fails with the KeyError of *)
(* an entry that another call evicted, and no connection that the adapter  *)
(* opened is left open outside the cache: each is the one cached under its *)
(* key, is still held by the call that opened it, or has been closed.      *)
C34_EvictionAtomic ==
    /\ sh.leaked = {}
    /\ ~ \E t \in Threads : sh.at[t].pc = "idle" /\ sh.at[t].raised = "KeyError"

(* C35: in every reachable state of the breaker, whatever the interleaving *)
(* of before_request, on_success and on_failure from concurrent callers,   *)
(* a Closed breaker has counted fewer than failure_threshold failures, and *)
(* the success count never exceeds success_threshold.                      *)
C35_BreakerCountsBounded ==
    /\ _circuit_breaker._state = CLOSED
            => _circuit_breaker._failure_count < failure_threshold
    /\ _circuit_breaker._success_count <= success_threshold

(* C35 witness: the breaker has closed again after success_threshold       *)
(* successes in HalfOpen while two callers were in flight, one of them     *)
(* about to report a failure.                                              *)
C35_Witness ==
    /\ _circuit_breaker._state = CLOSED
    /\ _circuit_breaker._success_count = success_threshold
    /\ \E t, u \in Threads :
          /\ t # u
          /\ th[t].pc = "on_failure"
          /\ th[u].pc = "done" /\ th[u].result = "ok"

(* C36: a resolve call that has passed before_request reports at most one  *)
(* outcome to the breaker, however many GETs the retry loop sends: no GET  *)
(* and no sleep touches the breaker; the one on_success or on_failure is   *)
(* the last step of the call; a call that ends with NotFoundError reports  *)
(* nothing.                                                                *)
C36_OneOutcomePerResolve ==
    [][ \A t \in Callers :
            th[t].op = "resolve"
                => /\ th[t].pc = "retry" => _circuit_breaker' = _circuit_breaker
                   /\ th[t].pc = "cache_write" => _circuit_breaker' = _circuit_breaker
                   /\ (th[t].pc = "on_success" /\ th'[t] # th[t])
                        => /\ _circuit_breaker' = on_success(_circuit_breaker)
                           /\ th'[t].pc = "done"
                   /\ (th[t].pc = "on_failure" /\ th'[t] # th[t])
                        => /\ _circuit_breaker' = on_failure(_circuit_breaker, mono)
                           /\ th'[t].pc = "done"
                   /\ th[t].pc = "done"
                        => /\ _circuit_breaker' = _circuit_breaker
                           /\ th'[t].pc \in {"done", "idle"}
                   /\ (th[t].pc = "retry" /\ th'[t].pc = "on_failure")
                        => th'[t].retry.pc = "raised"
                   /\ (th[t].pc = "retry" /\ th'[t].pc = "cache_write")
                        => th'[t].retry.pc = "returned"
                   /\ (th'[t].pc = "done" /\ th'[t].result = "NotFoundError")
                        => th[t].pc \in {"retry", "done"}
      ]_vars

(* C36 witness: a resolve that sent max_retries + 1 GETs has failed and    *)
(* the breaker has counted one failure.                                    *)
C36_Witness ==
    \E t \in Callers :
        /\ th[t].op = "resolve" /\ th[t].pc = "done"
        /\ th[t].gets = max_retries + 1
        /\ th[t].result = "ReadTimeout"
        /\ _circuit_breaker._failure_count = 1

----------------------------------------------------------------------------
(* Properties: what a failed resolve leaves behind *)

(* C37: the resolution cache is written only on resolver success.  No step *)
(* of a resolve call other than the cache write that follows a successful  *)
(* GET changes the cache, and a call that fails (404, another status, the  *)
(* breaker's fail-fast, a transport failure, retries used up) never comes  *)
(* through that write, so it leaves the cache as it was; with cache_ttl = 0 *)
(* the cache stays empty whatever resolve and batch_resolve calls are made. *)
C37_CacheOnlyOnSuccess ==
    /\ [](cache_ttl = 0 => \A m \in Monikers : _cache[m] = NoEntry)
    /\ [][ \A t \in Callers :
              th[t].op = "resolve"
                  => /\ _cache' # _cache
                          => /\ th[t].pc = "cache_write"
                             /\ th[t].retry.pc = "returned"
                             /\ th'[t].pc = "on_success"
                     /\ (th'[t].pc = "done" /\ th[t].pc # "done" /\ th'[t].result # "ok")
                          => /\ th[t].pc \in {"before_request", "retry", "on_failure"}
                             /\ _cache' = _cache
                     /\ (th'[t].pc = "on_failure" /\ th[t].pc # "on_failure")
                          => th[t].pc = "retry"
         ]_vars

(* C37 witness: with caching on, a resolve of a moniker whose entry had    *)
(* expired has failed, and the expired entry is still in the cache.        *)
C37_Witness ==
    \E t \in Callers :
        /\ cache_ttl > 0
        /\ th[t].op = "resolve" /\ th[t].pc = "done"
        /\ th[t].result = "ResolutionError"
        /\ _cache[th[t].args[1]] # NoEntry

----------------------------------------------------------------------------
(* Properties: recovery of the breaker *)

(* C38: when the breaker is Open, every admitted resolver call succeeds    *)
(* and callers keep issuing uncached resolves, the breaker eventually      *)
(* becomes Closed, through HalfOpen and success_threshold successes once   *)
(* recovery_timeout has passed, and a Closed breaker to which no failure   *)
(* is reported stays Closed.                                               *)
C38_RecoveryReached ==
    /\ (_circuit_breaker._state = OPEN) ~> (_circuit_breaker._state = CLOSED)
    /\ [][ _circuit_breaker._state = CLOSED => _circuit_breaker'._state = CLOSED ]_vars
    /\ [][ (_circuit_breaker._state # CLOSED /\ _circuit_breaker'._state = CLOSED)
              => /\ _circuit_breaker._state = HALF_OPEN
                 /\ _circuit_breaker'._success_count = success_threshold
                 /\ mono - _circuit_breaker._opened_at >= recovery_timeout ]_vars

(* C38 witness: the breaker that was opened at time 0 has closed after     *)
(* recovery_timeout, on the second success reported in HalfOpen.           *)
C38_Witness ==
    /\ _circuit_breaker._state = CLOSED
    /\ _circuit_breaker._success_count = success_threshold
    /\ _circuit_breaker._failure_count = 0
    /\ mono >= recovery_timeout
    /\ hist.served # {}

----------------------------------------------------------------------------
(* Properties: credentials and the query text *)

(* C39: the query OracleAdapter.fetch executes does not depend on the      *)
(* credentials: for two bindings that differ only in the oracle_user and   *)
(* oracle_password entries of their parameters the query executed is the   *)
(* same, and the password is no part of the query text.                    *)
C39_QueryIndependentOfCredentials ==
    LET x == cr.fetched["x"]
        y == cr.fetched["y"]
    IN  /\ (x.raised = "" /\ y.raised = "") => x.query = y.query
        /\ \A b \in Bindings :
              cr.fetched[b].raised = ""
                  => cr.fetched[b].password \notin Range(cr.fetched[b].query)

----------------------------------------------------------------------------
(* Properties: the shared JWT header cache *)

(* C40: with auth_method = jwt, whatever the interleaving of concurrent    *)
(* get_auth_headers calls made for configurations with different tokens,   *)
(* the Authorization header a call returns is "Bearer <token>" for the     *)
(* token resolved from the configuration it was called with.               *)
C40_OwnTokenReturned ==
    \A t \in Threads :
        (au.at[t].pc = "done" /\ au.at[t].token # None)
            => au.at[t].out = BearerHeaders(_get_jwt_token(au.at[t].config))

====
